---- MODULE Spec2Model ----
(***************************************************************************)
(* Event pipeline of the Adquimo React SDK: the coordinator (AdquimoSDK),  *)
(* the Delivery Client (NetworkManager), the Identity and Session Stores   *)
(* (UserManager, SessionManager) and the Persistent Store (StorageManager).*)
(*                                                                         *)
(* Scheduling follows the JavaScript event loop.  An async handler runs    *)
(* synchronously up to its first await; every await is a step boundary.    *)
(* Continuations that wait only on already settled promises (storage is    *)
(* synchronous behind its async facade) are microtasks: timer callbacks,   *)
(* network completions and sleep expiries are macrotasks and run only when *)
(* no microtask is pending.  Calls made by the application may start at    *)
(* any step boundary.  The application issues initialize, identify, alias, *)
(* reset and destroy one at a time; track*, flush and setCallbacks may     *)
(* overlap anything.                                                       *)
(***************************************************************************)
EXTENDS Integers, Sequences, FiniteSets, Bags, TLC

\* ------------------------------------------------------------------ bounds
MaxEvents == 3          \* events created by track* in one behaviour
MaxTimers == 2          \* setInterval calls in one behaviour
MaxUuid == 3            \* uuids drawn for users and sessions in one behaviour
BatchSize == 2          \* config.batchSize supplied at construction
MaxLifecycleEvents == 2 \* events created by track where identity or lifecycle calls interleave

\* --------------------------------------------------------------- constants
DEFAULT_RETRY_ATTEMPTS == 3
DEFAULT_RETRY_DELAY == 1000
DEFAULT_BACKOFF_MULTIPLIER == 2
MAX_USER_PROPERTIES == 50

\* storage keys are strings, written as sequences of pieces
USER_ID == <<"adquimo_user_id">>
SESSION_ID == <<"adquimo_session_id">>
USER_PROPERTIES == <<"adquimo_user_properties">>
SESSION_PROPERTIES == <<"adquimo_session_properties">>

VARIABLES
  isInitialized,   \* AdquimoSDK.isInitialized
  flushTimer,      \* AdquimoSDK.flushTimer: 0 is undefined, else an interval handle
  eventQueue,      \* AdquimoSDK.eventQueue
  callbacks,       \* AdquimoSDK.callbacks: the names of the registered callbacks
  retryConfig,     \* AdquimoSDK.config.retryConfig after mergeWithDefaults
  currentUser,     \* UserManager.currentUser
  currentSession,  \* SessionManager.currentSession
  storage,         \* the backend of StorageManager: key -> parsed stored value
  timers,          \* interval handles that are armed (setInterval, not yet cleared)
  pendingTracks,   \* track* calls suspended at `await createEvent`, in call order
  call,            \* the initialize/identify/alias/reset/destroy call in progress
  flights,         \* flush() invocations suspended in sendBatch
  delivered,       \* bag of the events in batches the collector answered with a 2xx status
  ret,             \* the public call that returns in this step, and its outcome
  notified,        \* the callbacks invoked in this step, in order
  nextEventId,     \* next uuid for an event
  nextUuid,        \* next uuid for a user or a session
  nextTimer        \* next interval handle

vars == <<isInitialized, flushTimer, eventQueue, callbacks, retryConfig,
          currentUser, currentSession, storage, timers, pendingTracks, call,
          flights, delivered, ret, notified, nextEventId, nextUuid, nextTimer>>

identityVars == <<currentUser, currentSession, storage, nextUuid>>
timerVars == <<flushTimer, timers, nextTimer>>

\* ----------------------------------------------------------------- values
Null == [tag |-> "null"]
Idle == [op |-> "none", pc |-> "none"]
NoRet == [op |-> "none", code |-> "none"]
NoId == <<>>                       \* undefined / empty string
Whitespace == {" "}

Min(a, b) == IF a < b THEN a ELSE b

RECURSIVE Pow(_, _)
Pow(b, e) == IF e = 0 THEN 1 ELSE b * Pow(b, e - 1)

\* `x || d` on numbers: 0 is falsy
OrDefault(x, d) == IF x = 0 THEN d ELSE x

\* AdquimoSDK.mergeWithDefaults, retryConfig part
MergeWithDefaults(c) ==
  [maxRetries |-> OrDefault(c.maxRetries, DEFAULT_RETRY_ATTEMPTS),
   initialDelay |-> OrDefault(c.initialDelay, DEFAULT_RETRY_DELAY),
   maxDelay |-> OrDefault(c.maxDelay, DEFAULT_RETRY_DELAY * 10),
   backoffMultiplier |-> OrDefault(c.backoffMultiplier, DEFAULT_BACKOFF_MULTIPLIER)]

\* calculateDelay without the maxDelay ceiling
CalculateDelayUncapped(attempt, rc) ==
  rc.initialDelay * Pow(rc.backoffMultiplier, attempt)

\* NetworkManager.calculateDelay
CalculateDelay(attempt, rc) ==
  Min(rc.initialDelay * Pow(rc.backoffMultiplier, attempt), rc.maxDelay)

\* uuidv4() for a user id, as a string
Uuid(n) == <<"uuid", ToString(n)>>

\* String.prototype.trim
RECURSIVE TrimLeft(_)
TrimLeft(s) == IF s # <<>> /\ Head(s) \in Whitespace THEN TrimLeft(Tail(s)) ELSE s
RECURSIVE TrimRight(_)
TrimRight(s) ==
  IF s # <<>> /\ s[Len(s)] \in Whitespace THEN TrimRight(SubSeq(s, 1, Len(s) - 1)) ELSE s
Trim(s) == TrimRight(TrimLeft(s))

\* {...a, ...b}
Spread(a, b) ==
  [k \in DOMAIN a \cup DOMAIN b |-> IF k \in DOMAIN b THEN b[k] ELSE a[k]]

KeyChars == {"a", "c", "e", "g", "i", "k", "l", "p", "v", "w", "Z", "7", "_", "-"}
\* /^[a-zA-Z0-9_-]+$/.test(key)
IsValidPropertyKey(key) == key # <<>> /\ \A i \in 1..Len(key) : key[i] \in KeyChars
\* typeof value is string, number or boolean, or value === null
IsValidPropertyValue(value) == value \in {"string", "number", "boolean", "null"}

\* a validation that looks at the keys only
ValidateKeysOnly(properties) ==
  /\ Cardinality(DOMAIN properties) <= MAX_USER_PROPERTIES
  /\ \A k \in DOMAIN properties : IsValidPropertyKey(k)

\* UserManager.validateUserProperties: TRUE when it does not throw
ValidateUserProperties(properties) ==
  /\ Cardinality(DOMAIN properties) <= MAX_USER_PROPERTIES
  /\ \A k \in DOMAIN properties :
       IsValidPropertyKey(k) /\ IsValidPropertyValue(properties[k])

\* new Date() taken in the named method, as the Date object it is in memory
DateBy(method) == [type |-> "Date", by |-> method]

\* JSON.parse(JSON.stringify(v)): a Date comes back as a string
JsonDate(d) == IF d = "Date" THEN "string" ELSE d
JsonStamp(d) == [d EXCEPT !.type = "string"]
JsonRoundTrip(v) ==
  CASE v.tag = "session" -> [v EXCEPT !.startTime = JsonDate(@), !.endTime = JsonDate(@)]
    [] v.tag = "user" -> [v EXCEPT !.createdAt = JsonStamp(@), !.lastSeenAt = JsonStamp(@)]
    [] v.tag = "dated" -> [v EXCEPT !.at = JsonDate(@)]
    [] OTHER -> v

\* StorageManager.set / remove / get on the backend
StSet(st, key, v) == [st EXCEPT ![key] = JsonRoundTrip(v)]
StRemove(st, key) == [st EXCEPT ![key] = Null]
StGet(st, key) == st[key]

\* UserManager.getUserId() || undefined, SessionManager.getSessionId() || undefined
GetUserId == IF currentUser = Null THEN NoId ELSE currentUser.id
GetSessionId == IF currentSession = Null THEN 0 ELSE currentSession.id

\* maxInactivity of isSessionValid, in minutes
MaxInactivity == 30

\* SessionManager.isSessionValid: startTime.getTime() on a value that is no
\* Date is a TypeError; startedAgo is now - startTime in minutes
IsSessionValid(session) ==
  IF session.startTime = "none" THEN "invalid"
  ELSE IF session.startTime # "Date" THEN "TypeError"
  ELSE IF session.startedAgo < MaxInactivity THEN "valid"
  ELSE "invalid"

\* the record createAnonymousUser builds
AnonymousUser(n) ==
  [tag |-> "user", id |-> Uuid(n), properties |-> <<>>,
   createdAt |-> DateBy("createAnonymousUser"),
   lastSeenAt |-> DateBy("createAnonymousUser")]
\* the record createNewSession builds
NewSession(n) ==
  [tag |-> "session", id |-> n, startTime |-> "Date", endTime |-> "none",
   startedAgo |-> 0, duration |-> "none", properties |-> <<>>]

\* ------------------------------------------------------------ the inputs
SuppliedRetryConfigs ==
  { [maxRetries |-> 1, initialDelay |-> 600, maxDelay |-> 1000, backoffMultiplier |-> 2] }

TrackKinds == {"track", "trackPageView", "trackClick"}
EventName(kind) ==
  CASE kind = "trackPageView" -> <<"p", "a", "g", "e", "_", "v", "i", "e", "w">>
    [] kind = "trackClick" -> <<"c", "l", "i", "c", "k">>
    [] OTHER -> <<"a">>        \* a name the caller of track chose
ErrorCode(kind) ==
  CASE kind = "track" -> "TRACKING_ERROR"
    [] kind = "trackPageView" -> "PAGE_VIEW_ERROR"
    [] kind = "trackClick" -> "CLICK_ERROR"
    [] kind = "direct" -> "FLUSH_ERROR"
    [] OTHER -> "DESTROY_ERROR"

\* what localStorage can hold when the SDK is constructed: nothing, or the
\* records an earlier page load of this SDK left behind
Earlier == [type |-> "string", by |-> "earlier"]
PersistedUser ==
  [tag |-> "user", id |-> <<"uuid", "0">>, properties |-> <<>>,
   createdAt |-> Earlier, lastSeenAt |-> Earlier]
\* a session stored 10 minutes ago, and one stored 30 minutes ago
PersistedSession ==
  [tag |-> "session", id |-> 100, startTime |-> "string", endTime |-> "none",
   startedAgo |-> 10, duration |-> "none", properties |-> <<>>]
ExpiredSession ==
  [tag |-> "session", id |-> 101, startTime |-> "string", endTime |-> "none",
   startedAgo |-> 30, duration |-> "none", properties |-> <<>>]
\* the arguments of identify and alias
UserIds == { <<>>, <<" ">>, <<"u", "1">> }
AnonymousIds == { <<>>, <<"a", "1">> }
PropertyMaps ==
  { <<>>,
    [k \in {<<"a", "_">>} |-> "string"],
    [k \in {<<"a", "_">>} |-> "number"],
    [k \in {<<"a", " ">>} |-> "string"],
    [k \in {<<"a", "_">>} |-> "object"] }

\* `anonymous_${anonymousId}`
AnonymousKey(anonymousId) == <<"anonymous_">> \o anonymousId
\* keys the application uses on a StorageManager of its own
ItemKeys == { <<"k", "1">>, <<"k", "2">> }
\* the ids createAnonymousUser can give an anonymous user
SynthesizedIds == {Uuid(n) : n \in 0..MaxUuid}
StorageKeys ==
  {USER_ID, SESSION_ID, USER_PROPERTIES, SESSION_PROPERTIES}
    \cup {AnonymousKey(a) : a \in AnonymousIds \cup SynthesizedIds} \cup ItemKeys

\* a record the application stored under anonymous_a1 through the exported
\* StorageManager
AnonymousRecord ==
  [tag |-> "user", id |-> <<"a", "1">>, properties |-> [k \in {<<"Z">>} |-> "number"],
   createdAt |-> Earlier, lastSeenAt |-> Earlier]
EmptyStorage == [k \in StorageKeys |-> Null]
InitialStorages ==
  { EmptyStorage,
    [EmptyStorage EXCEPT ![USER_ID] = PersistedUser, ![SESSION_ID] = PersistedSession],
    [EmptyStorage EXCEPT ![USER_ID] = PersistedUser, ![SESSION_ID] = ExpiredSession],
    [EmptyStorage EXCEPT ![USER_ID] = PersistedUser,
                         ![AnonymousKey(<<"a", "1">>)] = AnonymousRecord] }

\* ------------------------------------------------------------------- Init
Init ==
  /\ isInitialized = FALSE
  /\ flushTimer = 0
  /\ eventQueue = <<>>
  /\ callbacks = {}
  /\ retryConfig \in {MergeWithDefaults(c) : c \in SuppliedRetryConfigs}
  /\ currentUser = Null
  /\ currentSession = Null
  /\ storage \in InitialStorages
  /\ timers = {}
  /\ pendingTracks = <<>>
  /\ call = Idle
  /\ flights = {}
  /\ delivered = EmptyBag
  /\ ret = NoRet
  /\ notified = <<>>
  /\ nextEventId = 1
  /\ nextUuid = 1
  /\ nextTimer = 1

\* a continuation is ready to run: macrotasks wait for it
MicrotaskPending ==
  \/ pendingTracks # <<>>
  \/ call.pc \notin {"none", "awaitFlush"}
  \/ \E f \in flights : f.pc = "resp"

Returns(op, code) == ret' = [op |-> op, code |-> code]
NoReturn == ret' = NoRet
\* createError(code, error): the error thrown keeps the message of its cause
Throws(op, code, cause) == ret' = [op |-> op, code |-> code, cause |-> cause]

\* an error that reaches no callback
OnErrorUnreported(code) == <<>>

\* this.callbacks.onError?.(createError(code, error)): the error carries the
\* ids of the current user and session
OnError(code) ==
  IF "onError" \in callbacks
  THEN <<[cb |-> "onError", code |-> code, userId |-> GetUserId, sessionId |-> GetSessionId]>>
  ELSE <<>>
\* this.callbacks.onSuccess?.(...)
OnSuccess == IF "onSuccess" \in callbacks THEN <<[cb |-> "onSuccess"]>> ELSE <<>>
\* this.callbacks.onEvent?.(event)
OnEvent(event) ==
  IF "onEvent" \in callbacks THEN <<[cb |-> "onEvent", id |-> event.id]>> ELSE <<>>
Silent == notified' = <<>>

\* ------------------------------------------------------- AdquimoSDK.flush
\* flush() that copies the queue into the batch and does not empty it
StartFlushNoSwap(queue, origin) ==
  /\ flights' = flights \cup
       {[events |-> queue, origin |-> origin, attempt |-> 0, outcomes |-> <<>>,
         delays |-> <<>>, pc |-> "fetch", resp |-> "none"]}
  /\ eventQueue' = queue

\* the synchronous part of flush() on a non-empty queue: drain, build the
\* batch, issue the first fetch
StartFlush(queue, origin) ==
  /\ flights' = flights \cup
       {[events |-> queue, origin |-> origin, attempt |-> 0, outcomes |-> <<>>,
         delays |-> <<>>, pc |-> "fetch", resp |-> "none"]}
  /\ eventQueue' = <<>>

\* a flush without the empty-queue return: it sends an empty batch
FlushAlways ==
  /\ StartFlush(eventQueue, "direct") /\ NoReturn
  /\ Silent
  /\ UNCHANGED <<isInitialized, callbacks, retryConfig, pendingTracks, call,
                 delivered, nextEventId, identityVars, timerVars>>

\* flush() called by the application
Flush ==
  /\ IF eventQueue = <<>>
     THEN Returns("flush", "OK") /\ UNCHANGED <<eventQueue, flights>>
     ELSE StartFlush(eventQueue, "direct") /\ NoReturn
  /\ Silent
  /\ UNCHANGED <<isInitialized, callbacks, retryConfig, pendingTracks, call,
                 delivered, nextEventId, identityVars, timerVars>>

\* the setInterval callback of startEventFlushing
TimerFire ==
  /\ ~MicrotaskPending
  /\ timers # {}
  /\ IF eventQueue = <<>>
     THEN UNCHANGED <<eventQueue, flights>>
     ELSE StartFlush(eventQueue, "timer")
  /\ NoReturn
  /\ Silent
  /\ UNCHANGED <<isInitialized, callbacks, retryConfig, pendingTracks, call,
                 delivered, nextEventId, identityVars, timerVars>>

\* ------------------------------------------------- NetworkManager.request
\* makeRequest throws (network error, timeout abort)
NetThrow(f) ==
  /\ ~MicrotaskPending
  /\ f.pc = "fetch"
  /\ flights' = (flights \ {f}) \cup
       { IF f.attempt = retryConfig.maxRetries
         THEN [f EXCEPT !.outcomes = Append(@, "threw"),
                        !.pc = "resp", !.resp = "NETWORK_ERROR"]
         ELSE [f EXCEPT !.outcomes = Append(@, "threw"),
                        !.pc = "sleep",
                        !.delays = Append(@, CalculateDelay(f.attempt, retryConfig))] }
  /\ NoReturn
  /\ Silent
  /\ UNCHANGED <<isInitialized, eventQueue, callbacks, retryConfig, pendingTracks,
                 call, delivered, nextEventId, identityVars, timerVars>>

\* the sleep between two attempts is over: next iteration of the loop
SleepDone(f) ==
  /\ ~MicrotaskPending
  /\ f.pc = "sleep"
  /\ flights' = (flights \ {f}) \cup {[f EXCEPT !.pc = "fetch", !.attempt = @ + 1]}
  /\ NoReturn
  /\ Silent
  /\ UNCHANGED <<isInitialized, eventQueue, callbacks, retryConfig, pendingTracks,
                 call, delivered, nextEventId, identityVars, timerVars>>

\* NetworkManager.handleResponse on the response the collector sent
\* BatchResponse: the events of a batch that the body of a 2xx answer reports
\* as processed (status "success": all; "partial": the first; "failed": none)
Processed(events, response) ==
  CASE response = "okFailed" -> {}
    [] response = "okPartial" -> {events[i] : i \in DOMAIN events \cap {1}}
    [] OTHER -> {events[i] : i \in DOMAIN events}

HandleResponse(response) ==
  CASE response = "notOk" -> "HTTP_ERROR"       \* returned, not thrown
    [] response \in {"okJson", "okPartial", "okFailed"} -> "OK"   \* success: true
    [] OTHER -> "REJECTED"                      \* response.json() rejects

\* a request() that treats a non-success response like a thrown error
NetRespondRetrying(f, response) ==
  /\ ~MicrotaskPending
  /\ f.pc = "fetch"
  /\ flights' = (flights \ {f}) \cup
       { IF response = "notOk" /\ f.attempt # retryConfig.maxRetries
         THEN [f EXCEPT !.outcomes = Append(@, response),
                        !.pc = "sleep",
                        !.delays = Append(@, CalculateDelay(f.attempt, retryConfig))]
         ELSE [f EXCEPT !.outcomes = Append(@, response),
                        !.pc = "resp", !.resp = HandleResponse(response)] }
  /\ delivered' = IF response = "notOk" THEN delivered
                  ELSE delivered (+) SetToBag(Processed(f.events, response))
  /\ NoReturn
  /\ Silent
  /\ UNCHANGED <<isInitialized, eventQueue, callbacks, retryConfig, pendingTracks,
                 call, nextEventId, identityVars, timerVars>>

\* makeRequest resolves with a response; request() returns handleResponse's
\* promise without awaiting it, so its rejection is not caught by the loop
NetRespond(f, response) ==
  /\ ~MicrotaskPending
  /\ f.pc = "fetch"
  /\ flights' = (flights \ {f}) \cup
       {[f EXCEPT !.outcomes = Append(@, response),
                  !.pc = "resp", !.resp = HandleResponse(response)]}
  /\ delivered' = IF response = "notOk" THEN delivered
                  ELSE delivered (+) SetToBag(Processed(f.events, response))
  /\ NoReturn
  /\ Silent
  /\ UNCHANGED <<isInitialized, eventQueue, callbacks, retryConfig, pendingTracks,
                 call, nextEventId, identityVars, timerVars>>

\* a failed batch that is not put back
RequeueNothing(events, queue) == queue

\* re-queueing with push instead of unshift
RequeueAtBack(events, queue) == queue \o events

\* this.eventQueue.unshift(...events)
Requeue(events, queue) == events \o queue

\* flush() after `await sendBatch`
FlushResume(f) ==
  /\ f.pc = "resp"
  /\ flights' = flights \ {f}
  /\ eventQueue' = IF f.resp \in {"HTTP_ERROR", "NETWORK_ERROR"}
                   THEN Requeue(f.events, eventQueue)
                   ELSE eventQueue
  /\ CASE f.origin = "timer" -> NoReturn /\ UNCHANGED call     \* .catch logs
       [] f.origin = "destroy" ->
            IF f.resp = "OK"
            THEN call' = [call EXCEPT !.pc = "teardown"] /\ NoReturn
            ELSE call' = Idle /\ Returns("destroy", "DESTROY_ERROR")
       [] f.origin = "direct" ->
            /\ Returns("flush", IF f.resp = "OK" THEN "OK" ELSE "FLUSH_ERROR")
            /\ UNCHANGED call
       [] OTHER ->
            /\ Returns(f.origin, IF f.resp = "OK" THEN "OK" ELSE ErrorCode(f.origin))
            /\ UNCHANGED call
  /\ notified' = (IF f.resp = "OK" THEN OnSuccess ELSE OnError("FLUSH_ERROR"))
                  \o (IF f.origin \in TrackKinds /\ f.resp # "OK"
                      THEN OnError(ErrorCode(f.origin)) ELSE <<>>)
  /\ UNCHANGED <<isInitialized, callbacks, retryConfig, pendingTracks,
                 delivered, nextEventId, identityVars, timerVars>>

\* -------------------------------------- AdquimoSDK.track / trackPageView /
\* trackClick up to `await createEvent`: the event is built synchronously
TrackEvent(kind, name, properties) ==
  /\ IF ~isInitialized
     THEN /\ Returns(kind, "SDK_NOT_INITIALIZED")
          /\ UNCHANGED <<pendingTracks, nextEventId>>
     ELSE /\ nextEventId <= MaxEvents
          /\ pendingTracks' = Append(pendingTracks,
               [kind |-> kind,
                event |-> [id |-> nextEventId, name |-> name,
                           properties |-> properties,
                           userId |-> GetUserId, sessionId |-> GetSessionId]])
          /\ nextEventId' = nextEventId + 1
          /\ NoReturn
  /\ Silent
  /\ UNCHANGED <<isInitialized, eventQueue, callbacks, retryConfig, call,
                 flights, delivered, identityVars, timerVars>>

\* track* called with a well-formed name and no properties
Track(kind) == TrackEvent(kind, EventName(kind), <<>>)

\* a threshold that is only passed beyond batchSize
BatchSizeExceeded(queue) == Len(queue) > BatchSize

\* this.eventQueue.length >= this.config.batchSize
BatchSizeReached(queue) == Len(queue) >= BatchSize

\* a queueEvent that reads the user and the session when it enqueues
QueueEventLive ==
  /\ pendingTracks # <<>>
  /\ LET t == Head(pendingTracks)
         live == [t.event EXCEPT !.userId = GetUserId, !.sessionId = GetSessionId]
         q == Append(eventQueue, live)
     IN IF BatchSizeReached(q)
        THEN StartFlush(q, t.kind) /\ NoReturn
        ELSE /\ eventQueue' = q
             /\ Returns(t.kind, "OK")
             /\ UNCHANGED flights
  /\ pendingTracks' = Tail(pendingTracks)
  /\ notified' = OnEvent(Head(pendingTracks).event)
  /\ UNCHANGED <<isInitialized, callbacks, retryConfig, call,
                 delivered, nextEventId, identityVars, timerVars>>

\* AdquimoSDK.queueEvent, the continuation of the oldest suspended track*
QueueEvent ==
  /\ pendingTracks # <<>>
  /\ LET t == Head(pendingTracks)
         q == Append(eventQueue, t.event)
     IN IF BatchSizeReached(q)
        THEN StartFlush(q, t.kind) /\ NoReturn
        ELSE /\ eventQueue' = q
             /\ Returns(t.kind, "OK")
             /\ UNCHANGED flights
  /\ pendingTracks' = Tail(pendingTracks)
  /\ notified' = OnEvent(Head(pendingTracks).event)
  /\ UNCHANGED <<isInitialized, callbacks, retryConfig, call,
                 delivered, nextEventId, identityVars, timerVars>>

\* AdquimoSDK.setCallbacks
SetCallbacks ==
  /\ callbacks' = callbacks \cup {"onEvent", "onError", "onSuccess"}
  /\ NoReturn
  /\ Silent
  /\ UNCHANGED <<isInitialized, eventQueue, retryConfig, pendingTracks, call,
                 flights, delivered, nextEventId, identityVars, timerVars>>

\* ------------------------------------------------- AdquimoSDK.initialize
\* initialize() up to its first await: StorageManager.initialize runs
\* testStorage synchronously
Initialize ==
  /\ call = Idle
  /\ nextTimer <= MaxTimers
  /\ nextUuid + (IF StGet(storage, USER_ID) = Null THEN 1 ELSE 0) <= MaxUuid
  /\ \E storageFails \in BOOLEAN :
       IF storageFails
       THEN /\ Returns("initialize", "INITIALIZATION_ERROR")
            /\ notified' = OnError("INITIALIZATION_ERROR")
            /\ UNCHANGED call
       ELSE call' = [op |-> "initialize", pc |-> "user"] /\ NoReturn /\ Silent
  /\ UNCHANGED <<isInitialized, eventQueue, callbacks, retryConfig, pendingTracks,
                 flights, delivered, nextEventId, identityVars, timerVars>>

\* UserManager.initialize (with createAnonymousUser); failAt names the
\* storage operation that throws, 0 for none
InitializeUser ==
  /\ call.op = "initialize" /\ call.pc = "user"
  /\ LET stored == StGet(storage, USER_ID)
     IN \E failAt \in 0..(IF stored = Null THEN 2 ELSE 1) :
          IF failAt # 0
          THEN /\ Returns("initialize", "INITIALIZATION_ERROR")
               /\ notified' = OnError("INITIALIZATION_ERROR")
               /\ call' = Idle
               /\ UNCHANGED <<currentUser, storage, nextUuid>>
          ELSE /\ call' = [call EXCEPT !.pc = "session"]
               /\ NoReturn /\ Silent
               /\ IF stored # Null
                  THEN currentUser' = stored /\ UNCHANGED <<storage, nextUuid>>
                  ELSE /\ storage' = StSet(storage, USER_ID, AnonymousUser(nextUuid))
                       /\ currentUser' = AnonymousUser(nextUuid)
                       /\ nextUuid' = nextUuid + 1
  /\ UNCHANGED <<isInitialized, eventQueue, callbacks, retryConfig, pendingTracks,
                 flights, delivered, nextEventId, currentSession, timerVars>>

\* SessionManager.initialize (with isSessionValid and createNewSession)
InitializeSession ==
  /\ call.op = "initialize" /\ call.pc = "session"
  /\ LET stored == StGet(storage, SESSION_ID)
         validity == IF stored = Null THEN "absent" ELSE IsSessionValid(stored)
     IN \E failAt \in 0..(IF validity = "valid" THEN 1 ELSE 2) :
          IF failAt # 0 \/ validity = "TypeError"
          THEN /\ Returns("initialize", "INITIALIZATION_ERROR")
               /\ notified' = OnError("INITIALIZATION_ERROR")
               /\ call' = Idle
               /\ UNCHANGED <<currentSession, storage, nextUuid>>
          ELSE /\ call' = [call EXCEPT !.pc = "finish"]
               /\ NoReturn /\ Silent
               /\ IF validity = "valid"
                  THEN currentSession' = stored /\ UNCHANGED <<storage, nextUuid>>
                  ELSE /\ storage' = StSet(storage, SESSION_ID, NewSession(nextUuid))
                       /\ currentSession' = NewSession(nextUuid)
                       /\ nextUuid' = nextUuid + 1
  /\ UNCHANGED <<isInitialized, eventQueue, callbacks, retryConfig, pendingTracks,
                 flights, delivered, nextEventId, currentUser, timerVars>>

\* AdquimoSDK.startEventFlushing
StartEventFlushing ==
  /\ flushTimer' = nextTimer
  /\ timers' = timers \cup {nextTimer}
  /\ nextTimer' = nextTimer + 1

\* an initialize() that finishes without the success callback
InitializeFinishSilent ==
  /\ call.op = "initialize" /\ call.pc = "finish"
  /\ StartEventFlushing
  /\ isInitialized' = TRUE
  /\ Returns("initialize", "OK")
  /\ Silent
  /\ call' = Idle
  /\ UNCHANGED <<eventQueue, callbacks, retryConfig, pendingTracks,
                 flights, delivered, nextEventId, identityVars>>

\* the rest of initialize(): startEventFlushing, isInitialized, onSuccess
InitializeFinish ==
  /\ call.op = "initialize" /\ call.pc = "finish"
  /\ StartEventFlushing
  /\ isInitialized' = TRUE
  /\ Returns("initialize", "OK")
  /\ notified' = OnSuccess
  /\ call' = Idle
  /\ UNCHANGED <<eventQueue, callbacks, retryConfig, pendingTracks,
                 flights, delivered, nextEventId, identityVars>>

\* --------------------------------- AdquimoSDK.identify, UserManager.identify
\* up to `await storageManager.set`
Identify(userId, properties) ==
  /\ call = Idle
  /\ IF ~isInitialized
     THEN Returns("identify", "SDK_NOT_INITIALIZED") /\ Silent /\ UNCHANGED <<call, storage>>
     ELSE LET user == IF currentUser # Null
                      THEN [currentUser EXCEPT
                              !.id = userId,
                              !.properties = Spread(currentUser.properties, properties),
                              !.lastSeenAt = DateBy("identify")]
                      ELSE [tag |-> "user", id |-> userId, properties |-> properties,
                            createdAt |-> DateBy("identify"),
                            lastSeenAt |-> DateBy("identify")]
          IN \E setFails \in BOOLEAN :
               IF \/ userId = <<>> \/ Trim(userId) = <<>>
                  \/ ~ValidateUserProperties(user.properties)
                  \/ setFails
               THEN /\ Throws("identify", "USER_IDENTIFICATION_ERROR",
                               IF userId = <<>> \/ Trim(userId) = <<>>
                               THEN "User ID is required"
                               ELSE IF ~ValidateUserProperties(user.properties)
                               THEN "Invalid property"
                               ELSE "STORAGE_SET_ERROR")
                    /\ notified' = OnError("USER_IDENTIFICATION_ERROR")
                    /\ UNCHANGED <<call, storage>>
               ELSE /\ storage' = StSet(storage, USER_ID, user)
                    /\ call' = [op |-> "identify", pc |-> "assign", user |-> user,
                                userId |-> userId, properties |-> properties]
                    /\ NoReturn /\ Silent
  /\ UNCHANGED <<isInitialized, eventQueue, callbacks, retryConfig, pendingTracks,
                 flights, delivered, nextEventId, currentUser, currentSession,
                 nextUuid, timerVars>>

\* an identify() that resolves without assigning the user it stored
IdentifyResumeStale ==
  /\ call.op = "identify" /\ call.pc = "assign"
  /\ Returns("identify", "OK")
  /\ call' = Idle
  /\ Silent
  /\ UNCHANGED <<isInitialized, eventQueue, callbacks, retryConfig, pendingTracks,
                 flights, delivered, nextEventId, currentUser, currentSession, storage,
                 nextUuid, timerVars>>

\* UserManager.identify after the await: this.currentUser = user
IdentifyResume ==
  /\ call.op = "identify" /\ call.pc = "assign"
  /\ currentUser' = call.user
  /\ Returns("identify", "OK")
  /\ call' = Idle
  /\ Silent
  /\ UNCHANGED <<isInitialized, eventQueue, callbacks, retryConfig, pendingTracks,
                 flights, delivered, nextEventId, currentSession, storage,
                 nextUuid, timerVars>>

\* ------------------------------------- AdquimoSDK.alias, UserManager.alias
\* up to `await storageManager.set`
Alias(anonymousId, userId) ==
  /\ call = Idle
  /\ IF ~isInitialized
     THEN Returns("alias", "SDK_NOT_INITIALIZED") /\ UNCHANGED <<call, storage>>
     ELSE \E failAt \in 0..2 :
            LET anonymousUser == IF anonymousId = <<>> THEN Null
                                 ELSE StGet(storage, AnonymousKey(anonymousId))
            IN IF \/ anonymousId = <<>> \/ userId = <<>>
                  \/ failAt # 0
                  \/ anonymousUser = Null
               THEN /\ Throws("alias", "USER_ALIAS_ERROR",
                               IF anonymousId = <<>> \/ userId = <<>>
                               THEN "Both IDs are required"
                               ELSE IF failAt = 1 THEN "STORAGE_GET_ERROR"
                               ELSE IF anonymousUser = Null
                               THEN "Anonymous user not found"
                               ELSE "STORAGE_SET_ERROR")
                    /\ UNCHANGED <<call, storage>>
               ELSE LET user == [anonymousUser EXCEPT !.id = userId,
                                                      !.lastSeenAt = DateBy("alias")]
                    IN /\ storage' = StSet(storage, USER_ID, user)
                       /\ call' = [op |-> "alias", pc |-> "assign", user |-> user,
                                   key |-> AnonymousKey(anonymousId),
                                   anonymousId |-> anonymousId, userId |-> userId]
                       /\ NoReturn
  /\ Silent
  /\ UNCHANGED <<isInitialized, eventQueue, callbacks, retryConfig, pendingTracks,
                 flights, delivered, nextEventId, currentUser, currentSession,
                 nextUuid, timerVars>>

\* an alias() that resolves without removing the anonymous record
AliasResumeKeepsRecord ==
  /\ call.op = "alias" /\ call.pc = "assign"
  /\ currentUser' = call.user
  /\ Returns("alias", "OK")
  /\ call' = Idle
  /\ Silent
  /\ UNCHANGED <<isInitialized, eventQueue, callbacks, retryConfig, pendingTracks,
                 flights, delivered, nextEventId, currentSession, storage, nextUuid,
                 timerVars>>

\* UserManager.alias after the await: this.currentUser = user, then the
\* anonymous record is removed
AliasResume ==
  /\ call.op = "alias" /\ call.pc = "assign"
  /\ currentUser' = call.user
  /\ \E removeFails \in BOOLEAN :
       IF removeFails
       THEN Throws("alias", "USER_ALIAS_ERROR", "STORAGE_REMOVE_ERROR") /\ UNCHANGED storage
       ELSE Returns("alias", "OK") /\ storage' = StRemove(storage, call.key)
  /\ call' = Idle
  /\ Silent
  /\ UNCHANGED <<isInitialized, eventQueue, callbacks, retryConfig, pendingTracks,
                 flights, delivered, nextEventId, currentSession, nextUuid, timerVars>>

\* ------------------------------------------- UserManager.updateProperties
\* called on the exported UserManager, up to `await storageManager.set`
UpdateProperties(properties) ==
  /\ call = Idle
  /\ \E setFails \in BOOLEAN :
       IF \/ currentUser = Null
          \/ ~ValidateUserProperties(properties)
          \/ setFails
       THEN /\ Throws("updateProperties", "USER_UPDATE_ERROR",
                       IF currentUser = Null THEN "No user identified"
                       ELSE IF ~ValidateUserProperties(properties)
                       THEN "Invalid property"
                       ELSE "STORAGE_SET_ERROR")
            /\ UNCHANGED <<call, storage>>
       ELSE LET updatedUser ==
                  [currentUser EXCEPT
                     !.properties = Spread(currentUser.properties, properties),
                     !.lastSeenAt = DateBy("updateProperties")]
            IN /\ storage' = StSet(storage, USER_ID, updatedUser)
               /\ call' = [op |-> "updateProperties", pc |-> "assign",
                           user |-> updatedUser, properties |-> properties]
               /\ NoReturn
  /\ Silent
  /\ UNCHANGED <<isInitialized, eventQueue, callbacks, retryConfig, pendingTracks,
                 flights, delivered, nextEventId, currentUser, currentSession,
                 nextUuid, timerVars>>

\* UserManager.updateProperties after the await: this.currentUser = updatedUser
UpdatePropertiesResume ==
  /\ call.op = "updateProperties" /\ call.pc = "assign"
  /\ currentUser' = call.user
  /\ Returns("updateProperties", "OK")
  /\ call' = Idle
  /\ Silent
  /\ UNCHANGED <<isInitialized, eventQueue, callbacks, retryConfig, pendingTracks,
                 flights, delivered, nextEventId, currentSession, storage,
                 nextUuid, timerVars>>

\* ------------------------------------------------------- AdquimoSDK.reset
\* reset() up to its first await: UserManager.reset clears currentUser and
\* calls remove(USER_ID)
Reset ==
  /\ call = Idle
  /\ IF ~isInitialized
     THEN Returns("reset", "SDK_NOT_INITIALIZED") /\ UNCHANGED <<call, currentUser, storage>>
     ELSE /\ nextUuid <= MaxUuid
          /\ currentUser' = Null
          /\ \E removeFails \in BOOLEAN :
               IF removeFails
               THEN Returns("reset", "RESET_ERROR") /\ UNCHANGED <<call, storage>>
               ELSE /\ storage' = StRemove(storage, USER_ID)
                    /\ call' = [op |-> "reset", pc |-> "user",
                                previous |-> GetUserId]   \* the user reset() replaces
                    /\ NoReturn
  /\ Silent
  /\ UNCHANGED <<isInitialized, eventQueue, callbacks, retryConfig, pendingTracks,
                 flights, delivered, nextEventId, currentSession, nextUuid, timerVars>>

\* the rest of UserManager.reset: remove(USER_PROPERTIES), createAnonymousUser
ResetUser ==
  /\ call.op = "reset" /\ call.pc = "user"
  /\ \E failAt \in 0..2 :
       IF failAt # 0
       THEN /\ Returns("reset", "RESET_ERROR")
            /\ call' = Idle
            /\ UNCHANGED <<currentUser, storage, nextUuid>>
       ELSE /\ storage' = StSet(StRemove(storage, USER_PROPERTIES), USER_ID,
                                AnonymousUser(nextUuid))
            /\ currentUser' = AnonymousUser(nextUuid)
            /\ nextUuid' = nextUuid + 1
            /\ call' = [call EXCEPT !.pc = "session"]
            /\ NoReturn
  /\ Silent
  /\ UNCHANGED <<isInitialized, eventQueue, callbacks, retryConfig, pendingTracks,
                 flights, delivered, nextEventId, currentSession, timerVars>>

\* an ended session whose duration is not computed
EndedSessionZeroDuration(session) ==
  [session EXCEPT !.endTime = "Date", !.duration = 0]

\* SessionManager.endSession: the record written for the ended session, with
\* duration = now - sessionStartTime
EndedSession(session) ==
  [session EXCEPT !.endTime = "Date", !.duration = session.startedAgo]

\* SessionManager.reset: endSession, two removes, state cleared
ResetSession ==
  /\ call.op = "reset" /\ call.pc = "session"
  /\ \E failAt \in 0..3 :
       LET ended == IF currentSession = Null THEN storage
                    ELSE StSet(storage, SESSION_ID, EndedSession(currentSession))
       IN CASE failAt = 0 ->
                 /\ storage' = StRemove(StRemove(ended, SESSION_ID), SESSION_PROPERTIES)
                 /\ currentSession' = Null
                 /\ call' = [call EXCEPT !.pc = "finish"]
                 /\ NoReturn
            [] failAt = 1 ->              \* set in endSession throws
                 /\ currentSession # Null
                 /\ Returns("reset", "RESET_ERROR") /\ call' = Idle
                 /\ UNCHANGED <<storage, currentSession>>
            [] failAt = 2 ->              \* remove(SESSION_ID) throws
                 /\ storage' = ended
                 /\ currentSession' = Null
                 /\ Returns("reset", "RESET_ERROR") /\ call' = Idle
            [] OTHER ->                   \* remove(SESSION_PROPERTIES) throws
                 /\ storage' = StRemove(ended, SESSION_ID)
                 /\ currentSession' = Null
                 /\ Returns("reset", "RESET_ERROR") /\ call' = Idle
  /\ Silent
  /\ UNCHANGED <<isInitialized, eventQueue, callbacks, retryConfig, pendingTracks,
                 flights, delivered, nextEventId, currentUser, nextUuid, timerVars>>

\* a reset() that returns without emptying the queue
ResetFinishKeepsQueue ==
  /\ call.op = "reset" /\ call.pc = "finish"
  /\ Returns("reset", "OK")
  /\ call' = Idle
  /\ Silent
  /\ UNCHANGED <<isInitialized, eventQueue, callbacks, retryConfig, pendingTracks,
                 flights, delivered, nextEventId, identityVars, timerVars>>

\* the rest of reset(): this.eventQueue = []
ResetFinish ==
  /\ call.op = "reset" /\ call.pc = "finish"
  /\ eventQueue' = <<>>
  /\ Returns("reset", "OK")
  /\ call' = Idle
  /\ Silent
  /\ UNCHANGED <<isInitialized, callbacks, retryConfig, pendingTracks,
                 flights, delivered, nextEventId, identityVars, timerVars>>

\* ----------------------------------------------------- AdquimoSDK.destroy
\* destroy() up to `await this.flush()`
Destroy ==
  /\ call = Idle
  /\ IF eventQueue = <<>>
     THEN /\ call' = [op |-> "destroy", pc |-> "teardown"]
          /\ UNCHANGED <<eventQueue, flights>>
     ELSE /\ StartFlush(eventQueue, "destroy")
          /\ call' = [op |-> "destroy", pc |-> "awaitFlush"]
  /\ NoReturn
  /\ Silent
  /\ UNCHANGED <<isInitialized, callbacks, retryConfig, pendingTracks,
                 delivered, nextEventId, identityVars, timerVars>>

\* destroy() after the flush succeeded: clearInterval, state reset
DestroyTeardown ==
  /\ call.op = "destroy" /\ call.pc = "teardown"
  /\ timers' = IF flushTimer # 0 THEN timers \ {flushTimer} ELSE timers
  /\ isInitialized' = FALSE
  /\ eventQueue' = <<>>
  /\ callbacks' = {}
  /\ Returns("destroy", "OK")
  /\ call' = Idle
  /\ Silent
  /\ UNCHANGED <<retryConfig, pendingTracks, flights, delivered, nextEventId,
                 identityVars, flushTimer, nextTimer>>

\* ------------------------------------------------------------------- Next
Next ==
  \/ Initialize
  \/ InitializeUser
  \/ InitializeSession
  \/ InitializeFinish
  \/ SetCallbacks
  \/ \E kind \in TrackKinds : Track(kind)
  \/ QueueEvent
  \/ Flush
  \/ TimerFire
  \/ \E f \in flights : NetThrow(f)
  \/ \E f \in flights : SleepDone(f)
  \/ \E f \in flights, response \in {"okJson", "okNoJson", "notOk"} : NetRespond(f, response)
  \/ \E f \in flights : FlushResume(f)
  \/ \E userId \in UserIds, properties \in PropertyMaps : Identify(userId, properties)
  \/ IdentifyResume
  \/ \E anonymousId \in AnonymousIds, userId \in UserIds : Alias(anonymousId, userId)
  \/ AliasResume
  \/ \E properties \in PropertyMaps : UpdateProperties(properties)
  \/ UpdatePropertiesResume
  \/ Reset
  \/ ResetUser
  \/ ResetSession
  \/ ResetFinish
  \/ Destroy
  \/ DestroyTeardown

Spec == Init /\ [][Next]_vars

TypeOK ==
  /\ isInitialized \in BOOLEAN
  /\ flushTimer \in 0..MaxTimers
  /\ timers \subseteq 1..MaxTimers
  /\ Len(eventQueue) <= MaxEvents

\* ------------------------------------------------- the pipeline when Ready
\* the state initialize() leaves behind on an empty store: an anonymous
\* user, a fresh session, the flush timer armed
ReadyState ==
  /\ isInitialized = TRUE
  /\ flushTimer = 1
  /\ timers = {1}
  /\ nextTimer = 2
  /\ eventQueue = <<>>
  /\ callbacks = {}
  /\ currentUser = AnonymousUser(1)
  /\ currentSession = NewSession(2)
  /\ storage = StSet(StSet(EmptyStorage, USER_ID, AnonymousUser(1)),
                     SESSION_ID, NewSession(2))
  /\ nextUuid = 3
  /\ pendingTracks = <<>>
  /\ call = Idle
  /\ flights = {}
  /\ delivered = EmptyBag
  /\ ret = [op |-> "initialize", code |-> "OK"]
  /\ notified = <<>>
  /\ nextEventId = 1

InitPipeline ==
  /\ ReadyState
  /\ retryConfig \in {MergeWithDefaults(c) : c \in SuppliedRetryConfigs}

\* track*, flush() and the timer, with the network: no reset, no destroy
NextPipeline ==
  \/ \E kind \in TrackKinds : Track(kind)
  \/ QueueEvent
  \/ Flush
  \/ TimerFire
  \/ \E f \in flights : NetThrow(f)
  \/ \E f \in flights : SleepDone(f)
  \/ \E f \in flights, response \in {"okJson", "okNoJson", "notOk"} : NetRespond(f, response)
  \/ \E f \in flights : FlushResume(f)

SpecPipeline == InitPipeline /\ [][NextPipeline]_vars

\* ------------------------------------------------------ one request alone
\* retry configurations handed to the constructor; 0 stands for a value
\* that was not supplied
RequestRetryConfigs ==
  { [maxRetries |-> 3, initialDelay |-> 100, maxDelay |-> 1000, backoffMultiplier |-> 2],
    [maxRetries |-> 3, initialDelay |-> 400, maxDelay |-> 1000, backoffMultiplier |-> 2],
    [maxRetries |-> 2, initialDelay |-> 100, maxDelay |-> 250, backoffMultiplier |-> 3],
    [maxRetries |-> 1, initialDelay |-> 600, maxDelay |-> 1000, backoffMultiplier |-> 2],
    [maxRetries |-> 4, initialDelay |-> 1, maxDelay |-> 5, backoffMultiplier |-> 1],
    [maxRetries |-> 0, initialDelay |-> 0, maxDelay |-> 0, backoffMultiplier |-> 0] }

\* a Ready coordinator on which flush() has just sent its first batch
\* one flush of one event is in flight on a Ready coordinator
RequestInFlight ==
  /\ isInitialized = TRUE
  /\ flushTimer = 1
  /\ timers = {1}
  /\ nextTimer = 2
  /\ eventQueue = <<>>
  /\ callbacks = {}
  /\ currentUser = AnonymousUser(1)
  /\ currentSession = NewSession(2)
  /\ storage = StSet(StSet(EmptyStorage, USER_ID, AnonymousUser(1)),
                     SESSION_ID, NewSession(2))
  /\ nextUuid = 3
  /\ pendingTracks = <<>>
  /\ call = Idle
  /\ flights = {[events |-> <<[id |-> 1, name |-> EventName("track"), properties |-> <<>>,
                               userId |-> Uuid(1), sessionId |-> 2]>>,
                 origin |-> "direct", attempt |-> 0, outcomes |-> <<>>,
                 delays |-> <<>>, pc |-> "fetch", resp |-> "none"]}
  /\ delivered = EmptyBag
  /\ ret = NoRet
  /\ notified = <<>>
  /\ nextEventId = 2

InitRequest ==
  /\ RequestInFlight
  /\ retryConfig \in {MergeWithDefaults(c) : c \in RequestRetryConfigs}

NextRequest ==
  \/ Flush
  \/ \E f \in flights : NetThrow(f)
  \/ \E f \in flights : SleepDone(f)
  \/ \E f \in flights, response \in {"okJson", "okNoJson", "notOk"} : NetRespond(f, response)
  \/ \E f \in flights : FlushResume(f)

SpecRequest == InitRequest /\ [][NextRequest]_vars

\* ------------------------------------------------- reset on a Ready SDK
\* track, identify with arguments it accepts and reset (one at a time) with
\* the timer and a collector that answers every request
NextReset ==
  \/ (nextEventId <= MaxLifecycleEvents /\ Track("track"))
  \/ QueueEvent
  \/ TimerFire
  \/ \E f \in flights, response \in {"okJson", "notOk"} : NetRespond(f, response)
  \/ \E f \in flights : FlushResume(f)
  \/ \E properties \in {p \in PropertyMaps : ValidateUserProperties(p)} :
       Identify(<<"u", "1">>, properties)
  \/ IdentifyResume
  \/ Reset
  \/ ResetUser
  \/ ResetSession
  \/ ResetFinish

SpecReset == InitPipeline /\ [][NextReset]_vars

\* ------------------------------------------------ the life of one instance
\* construction to destroy and beyond: initialize, track, flush, reset and
\* destroy with the timer and a collector that answers every request
NextLifecycle ==
  \/ Initialize
  \/ InitializeUser
  \/ InitializeSession
  \/ InitializeFinish
  \/ SetCallbacks
  \/ (nextEventId <= MaxLifecycleEvents /\ Track("track"))
  \/ QueueEvent
  \/ Flush
  \/ TimerFire
  \/ \E f \in flights, response \in {"okJson", "notOk"} : NetRespond(f, response)
  \/ \E f \in flights : FlushResume(f)
  \/ Reset
  \/ ResetUser
  \/ ResetSession
  \/ ResetFinish
  \/ Destroy
  \/ DestroyTeardown

SpecLifecycle == Init /\ [][NextLifecycle]_vars

\* ------------------------------------------- the pipeline with callbacks
\* a Ready SDK on which the application registers callbacks and tracks; the
\* transport may throw and the collector may answer anything
NextNotify ==
  \/ SetCallbacks
  \/ (nextEventId <= MaxLifecycleEvents /\ Track("track"))
  \/ QueueEvent
  \/ Flush
  \/ TimerFire
  \/ \E f \in flights : NetThrow(f)
  \/ \E f \in flights : SleepDone(f)
  \/ \E f \in flights, response \in {"okJson", "okNoJson", "notOk"} : NetRespond(f, response)
  \/ \E f \in flights : FlushResume(f)

SpecNotify == InitPipeline /\ [][NextNotify]_vars

\* ------------------------------------------------ the identity operations
\* initialize, then identify, alias, updateProperties and reset, one at a
\* time, with any arguments, on any of the initial stores
NextIdentity ==
  \/ Initialize
  \/ InitializeUser
  \/ InitializeSession
  \/ InitializeFinish
  \/ SetCallbacks
  \/ \E userId \in UserIds, properties \in PropertyMaps : Identify(userId, properties)
  \/ IdentifyResume
  \/ \E anonymousId \in AnonymousIds, userId \in UserIds : Alias(anonymousId, userId)
  \/ AliasResume
  \/ \E properties \in PropertyMaps : UpdateProperties(properties)
  \/ UpdatePropertiesResume
  \/ Reset
  \/ ResetUser
  \/ ResetSession
  \/ ResetFinish

SpecIdentity == Init /\ [][NextIdentity]_vars

\* ------------------------------------------- track with names and properties
MAX_EVENT_PROPERTIES == 100

\* the names and property maps handed to track
EventNames == { <<"a">>, <<"a", " ">>, <<>> }
EventPropertyMaps ==
  { <<>>,
    [k \in {<<"a", "_">>} |-> "object"],
    [k \in {<<"a", " ">>} |-> "string"],
    [k \in {[j \in 1..n |-> "a"] : n \in 1..(MAX_EVENT_PROPERTIES + 1)} |-> "string"] }

\* /^[a-zA-Z0-9_-]+$/.test(name)
IsValidEventName(name) == name # <<>> /\ \A i \in 1..Len(name) : name[i] \in KeyChars

\* EventValidator.validate(event).isValid, for the fields track's caller supplies
ValidateEvent(event) ==
  /\ event.name # <<>> /\ Trim(event.name) # <<>>
  /\ IsValidEventName(event.name)
  /\ Cardinality(DOMAIN event.properties) <= MAX_EVENT_PROPERTIES
  /\ \A k \in DOMAIN event.properties :
       IsValidPropertyKey(k) /\ IsValidPropertyValue(event.properties[k])

NextTrack ==
  \/ SetCallbacks
  \/ /\ nextEventId <= MaxLifecycleEvents
     /\ \E name \in EventNames, properties \in EventPropertyMaps :
          TrackEvent("track", name, properties)
  \/ QueueEvent
  \/ TimerFire
  \/ \E f \in flights : NetRespond(f, "okJson")
  \/ \E f \in flights : FlushResume(f)

SpecTrack == InitPipeline /\ [][NextTrack]_vars

\* ----------------------------------------------- delivery under fair scheduling
\* The event loop runs every continuation that is ready, setInterval keeps
\* firing, a sleep ends, every fetch settles (makeRequest aborts it after its
\* timeout), and the collector answers a batch with a 2xx status again and
\* again as long as batches keep reaching it.
FairDelivery ==
  /\ WF_vars(QueueEvent)
  /\ WF_vars(TimerFire)
  /\ WF_vars(\E f \in flights : SleepDone(f))
  /\ WF_vars(\E f \in flights : FlushResume(f))
  /\ WF_vars(\E f \in flights :
               \/ NetThrow(f)
               \/ \E response \in {"okJson", "okNoJson", "notOk"} : NetRespond(f, response))
  /\ SF_vars(\E f \in flights, response \in {"okJson", "okNoJson"} : NetRespond(f, response))

SpecLive == InitPipeline /\ [][NextNotify]_vars /\ FairDelivery

\* ------------------------------------------------ a StorageManager with ttl
\* time is counted in ticks; an item is followed up to MaxAge ticks
MaxAge == 3
\* config.maxSize, in characters of the serialised item
StorageMaxSize == 5
\* values handed to set, with the length of their serialised item; ttl 0 is
\* a ttl that was not given
StoredValues ==
  { [tag |-> "plain", length |-> 1],
    [tag |-> "plain", length |-> 9],
    [tag |-> "dated", at |-> "Date", length |-> 2] }
Ttls == {0, 2}

\* StorageManager.set(key, value, ttl): the item is stored as
\* JSON.stringify({key, value, timestamp: new Date(), ttl: ttl || undefined})
StorageSet(key, value, ttl) ==
  /\ \E setItemThrows \in BOOLEAN :
       IF value.length > StorageMaxSize \/ setItemThrows
       THEN /\ ret' = [op |-> "set", code |-> "STORAGE_SET_ERROR",
                        cause |-> IF value.length > StorageMaxSize
                                  THEN "Value exceeds maximum storage size"
                                  ELSE "setItem",
                        key |-> key, value |-> value]
            /\ UNCHANGED storage
       ELSE /\ storage' = [storage EXCEPT ![key] =
                 [tag |-> "item", value |-> JsonRoundTrip(value),
                  timestamp |-> JsonDate("Date"), ttl |-> ttl, age |-> 0]]
            /\ ret' = [op |-> "set", code |-> "OK", key |-> key, value |-> value]
  /\ Silent
  /\ UNCHANGED <<isInitialized, eventQueue, callbacks, retryConfig, pendingTracks, call,
                 flights, delivered, nextEventId, currentUser, currentSession, nextUuid,
                 timerVars>>

\* StorageManager.get(key): `item.ttl && Date.now() - item.timestamp.getTime()
\* > item.ttl` calls getTime on what JSON.parse returned for the timestamp
StorageGet(key) ==
  /\ LET item == storage[key]
     IN IF item = Null
        THEN ret' = [op |-> "get", code |-> "OK", key |-> key, value |-> Null]
               /\ UNCHANGED storage
        ELSE IF item.ttl # 0 /\ item.timestamp # "Date"
        THEN ret' = [op |-> "get", code |-> "STORAGE_GET_ERROR", key |-> key,
                     cause |-> "TypeError"]
               /\ UNCHANGED storage
        ELSE IF item.ttl # 0 /\ item.age > item.ttl
        THEN ret' = [op |-> "get", code |-> "OK", key |-> key, value |-> Null]
               /\ storage' = StRemove(storage, key)
        ELSE ret' = [op |-> "get", code |-> "OK", key |-> key, value |-> item.value]
               /\ UNCHANGED storage
  /\ Silent
  /\ UNCHANGED <<isInitialized, eventQueue, callbacks, retryConfig, pendingTracks, call,
                 flights, delivered, nextEventId, currentUser, currentSession, nextUuid,
                 timerVars>>

\* StorageManager.getKeys()
StorageGetKeys ==
  /\ ret' = [op |-> "getKeys", code |-> "OK",
             keys |-> {k \in DOMAIN storage : storage[k] # Null}]
  /\ Silent
  /\ UNCHANGED <<isInitialized, eventQueue, callbacks, retryConfig, pendingTracks, call,
                 flights, delivered, nextEventId, identityVars, timerVars>>

\* one tick of time passes for the stored items
ClockTick ==
  /\ \E k \in ItemKeys : storage[k] # Null /\ storage[k].age < MaxAge
  /\ storage' = [k \in DOMAIN storage |->
                   IF k \in ItemKeys /\ storage[k] # Null /\ storage[k].age < MaxAge
                   THEN [storage[k] EXCEPT !.age = @ + 1]
                   ELSE storage[k]]
  /\ NoReturn /\ Silent
  /\ UNCHANGED <<isInitialized, eventQueue, callbacks, retryConfig, pendingTracks, call,
                 flights, delivered, nextEventId, currentUser, currentSession, nextUuid,
                 timerVars>>

InitStore ==
  /\ Init
  /\ storage = EmptyStorage

NextStore ==
  \/ \E key \in ItemKeys, value \in StoredValues, ttl \in Ttls : StorageSet(key, value, ttl)
  \/ \E key \in ItemKeys : StorageGet(key)
  \/ StorageGetKeys
  \/ ClockTick

SpecStore == InitStore /\ [][NextStore]_vars

\* -------------------------------------- reset while a flush is in flight
\* a Ready SDK whose store does not fail: track, the timer, the collector's
\* answers, and reset() running to its end. reset() is called when no
\* continuation is pending: a track called before it has enqueued its event
\* (one microtask after its call, while reset() empties the queue several
\* microtasks after its own) and an answered flush has finished.
NextResetInFlight ==
  \/ (nextEventId <= MaxLifecycleEvents /\ Track("track"))
  \/ QueueEvent
  \/ TimerFire
  \/ \E f \in flights, response \in {"okJson", "notOk"} : NetRespond(f, response)
  \/ \E f \in flights : FlushResume(f)
  \/ (~MicrotaskPending /\ Reset /\ call' # Idle)
  \/ (ResetUser /\ call' # Idle)
  \/ (ResetSession /\ call' # Idle)
  \/ ResetFinish

SpecResetInFlight == InitPipeline /\ [][NextResetInFlight]_vars

\* ------------------------------------ destroy while a flush is in flight
\* a Ready SDK: track, the timer, the collector's answers, and destroy()
\* called when no continuation is pending; nothing is tracked while
\* destroy() runs
NextDestroyInFlight ==
  \/ (nextEventId <= MaxLifecycleEvents /\ call = Idle /\ Track("track"))
  \/ QueueEvent
  \/ TimerFire
  \/ \E f \in flights, response \in {"okJson", "notOk"} : NetRespond(f, response)
  \/ \E f \in flights : FlushResume(f)
  \/ (~MicrotaskPending /\ Destroy)
  \/ DestroyTeardown

SpecDestroyInFlight == InitPipeline /\ [][NextDestroyInFlight]_vars

\* ------------------------------------------- SessionManager, called directly
MAX_SESSION_PROPERTIES == 25
SessionPropertyMaps ==
  { <<>>,
    [k \in {<<"a", "_">>} |-> "string"],
    [k \in {<<"a", " ">>} |-> "string"] }

\* SessionManager.validateSessionProperties
ValidateSessionProperties(properties) ==
  /\ Cardinality(DOMAIN properties) <= MAX_SESSION_PROPERTIES
  /\ \A k \in DOMAIN properties :
       IsValidPropertyKey(k) /\ IsValidPropertyValue(properties[k])

\* SessionManager.createNewSession up to `await storageManager.set`: the
\* session record it builds (startTime = now, the properties passed in)
CreatedSession(properties) == [NewSession(nextUuid) EXCEPT !.properties = properties]

\* SessionManager.startSession up to its first storage write.  With a session
\* active that is the write of endSession; else it is the write of
\* createNewSession.  `before` keeps the session the call found.
StartSession(properties) ==
  /\ call = Idle
  /\ nextUuid <= MaxUuid
  /\ \E setFails \in BOOLEAN :
       IF setFails
       THEN /\ Throws("startSession", "SESSION_START_ERROR", "STORAGE_SET_ERROR")
            /\ UNCHANGED <<call, storage>>
       ELSE /\ NoReturn
            /\ IF currentSession # Null
               THEN /\ storage' = StSet(storage, SESSION_ID, EndedSession(currentSession))
                    /\ call' = [op |-> "startSession", pc |-> "ended",
                                before |-> currentSession, properties |-> properties]
               ELSE /\ storage' = StSet(storage, SESSION_ID, CreatedSession(properties))
                    /\ call' = [op |-> "startSession", pc |-> "assign",
                                before |-> currentSession, properties |-> properties,
                                session |-> CreatedSession(properties)]
  /\ Silent
  /\ UNCHANGED <<isInitialized, eventQueue, callbacks, retryConfig, pendingTracks,
                 flights, delivered, nextEventId, currentUser, currentSession,
                 nextUuid, timerVars>>

\* startSession after `await this.endSession()`: endSession clears the current
\* session, then createNewSession runs up to its storage write
StartSessionCreate ==
  /\ call.op = "startSession" /\ call.pc = "ended"
  /\ currentSession' = Null
  /\ \E setFails \in BOOLEAN :
       IF setFails
       THEN /\ Throws("startSession", "SESSION_START_ERROR", "STORAGE_SET_ERROR")
            /\ call' = Idle
            /\ UNCHANGED storage
       ELSE /\ storage' = StSet(storage, SESSION_ID, CreatedSession(call.properties))
            /\ call' = [call EXCEPT !.pc = "assign"]
                         @@ [session |-> CreatedSession(call.properties)]
            /\ NoReturn
  /\ Silent
  /\ UNCHANGED <<isInitialized, eventQueue, callbacks, retryConfig, pendingTracks,
                 flights, delivered, nextEventId, currentUser, nextUuid, timerVars>>

\* createNewSession after its storage write: the new session becomes current
StartSessionAssign ==
  /\ call.op = "startSession" /\ call.pc = "assign"
  /\ currentSession' = call.session
  /\ nextUuid' = nextUuid + 1
  /\ call' = Idle
  /\ Returns("startSession", "OK")
  /\ Silent
  /\ UNCHANGED <<isInitialized, eventQueue, callbacks, retryConfig, pendingTracks,
                 flights, delivered, nextEventId, currentUser, storage, timerVars>>

\* SessionManager.endSession up to `await storageManager.set`
EndSession ==
  /\ call = Idle
  /\ IF currentSession = Null
     THEN /\ Returns("endSession", "OK")
          /\ UNCHANGED <<call, storage>>
     ELSE \E setFails \in BOOLEAN :
            IF setFails
            THEN /\ Throws("endSession", "SESSION_END_ERROR", "STORAGE_SET_ERROR")
                 /\ UNCHANGED <<call, storage>>
            ELSE /\ storage' = StSet(storage, SESSION_ID, EndedSession(currentSession))
                 /\ call' = [op |-> "endSession", pc |-> "assign",
                             before |-> currentSession]
                 /\ NoReturn
  /\ Silent
  /\ UNCHANGED <<isInitialized, eventQueue, callbacks, retryConfig, pendingTracks,
                 flights, delivered, nextEventId, currentUser, currentSession,
                 nextUuid, timerVars>>

\* endSession after its storage write
EndSessionResume ==
  /\ call.op = "endSession" /\ call.pc = "assign"
  /\ currentSession' = Null
  /\ call' = Idle
  /\ Returns("endSession", "OK")
  /\ Silent
  /\ UNCHANGED <<isInitialized, eventQueue, callbacks, retryConfig, pendingTracks,
                 flights, delivered, nextEventId, currentUser, storage, nextUuid,
                 timerVars>>

\* SessionManager.updateSessionProperties up to `await storageManager.set`
UpdateSessionProperties(properties) ==
  /\ call = Idle
  /\ \E setFails \in BOOLEAN :
       IF \/ currentSession = Null
          \/ ~ValidateSessionProperties(properties)
          \/ setFails
       THEN /\ Throws("updateSessionProperties", "SESSION_UPDATE_ERROR",
                       IF currentSession = Null THEN "No active session"
                       ELSE IF ~ValidateSessionProperties(properties)
                       THEN "Invalid property"
                       ELSE "STORAGE_SET_ERROR")
            /\ UNCHANGED <<call, storage>>
       ELSE LET updatedSession ==
                  [currentSession EXCEPT
                     !.properties = Spread(currentSession.properties, properties)]
            IN /\ storage' = StSet(storage, SESSION_ID, updatedSession)
               /\ call' = [op |-> "updateSessionProperties", pc |-> "assign",
                           before |-> currentSession, session |-> updatedSession]
               /\ NoReturn
  /\ Silent
  /\ UNCHANGED <<isInitialized, eventQueue, callbacks, retryConfig, pendingTracks,
                 flights, delivered, nextEventId, currentUser, currentSession,
                 nextUuid, timerVars>>

\* updateSessionProperties after its storage write
UpdateSessionPropertiesResume ==
  /\ call.op = "updateSessionProperties" /\ call.pc = "assign"
  /\ currentSession' = [call.session EXCEPT !.startedAgo = currentSession.startedAgo]
  /\ call' = Idle
  /\ Returns("updateSessionProperties", "OK")
  /\ Silent
  /\ UNCHANGED <<isInitialized, eventQueue, callbacks, retryConfig, pendingTracks,
                 flights, delivered, nextEventId, currentUser, storage, nextUuid,
                 timerVars>>

\* time passes for the current session: now - sessionStartTime grows
SessionTick ==
  /\ currentSession # Null /\ currentSession.startedAgo < MaxAge
  /\ currentSession' = [currentSession EXCEPT !.startedAgo = @ + 1]
  /\ NoReturn /\ Silent
  /\ UNCHANGED <<isInitialized, eventQueue, callbacks, retryConfig, pendingTracks, call,
                 flights, delivered, nextEventId, currentUser, storage, nextUuid,
                 timerVars>>

NextSession ==
  \/ \E properties \in SessionPropertyMaps : StartSession(properties)
  \/ StartSessionCreate
  \/ StartSessionAssign
  \/ EndSession
  \/ EndSessionResume
  \/ \E properties \in SessionPropertyMaps : UpdateSessionProperties(properties)
  \/ UpdateSessionPropertiesResume
  \/ SessionTick

SpecSession == InitPipeline /\ [][NextSession]_vars

\* SessionManager.isSessionActive
IsSessionActive(session) == session # Null /\ session.endTime = "none"

\* SessionManager.initialize called directly on a session store; failAt names
\* the storage operation that throws, 0 for none
SessionInitialize ==
  /\ call = Idle
  /\ nextUuid <= MaxUuid
  /\ LET stored == StGet(storage, SESSION_ID)
         validity == IF stored = Null THEN "absent" ELSE IsSessionValid(stored)
     IN \E failAt \in 0..(IF validity = "valid" THEN 1 ELSE 2) :
          IF failAt # 0 \/ validity = "TypeError"
          THEN /\ Throws("SessionManager.initialize", "SESSION_INIT_ERROR",
                          IF failAt = 1 THEN "STORAGE_GET_ERROR"
                          ELSE IF validity = "TypeError" THEN "TypeError"
                          ELSE "SESSION_CREATE_ERROR")
               /\ UNCHANGED <<currentSession, storage, nextUuid>>
          ELSE /\ Returns("SessionManager.initialize", "OK")
               /\ IF validity = "valid"
                  THEN currentSession' = stored /\ UNCHANGED <<storage, nextUuid>>
                  ELSE /\ storage' = StSet(storage, SESSION_ID, NewSession(nextUuid))
                       /\ currentSession' = NewSession(nextUuid)
                       /\ nextUuid' = nextUuid + 1
  /\ Silent
  /\ UNCHANGED <<isInitialized, eventQueue, callbacks, retryConfig, pendingTracks, call,
                 flights, delivered, nextEventId, currentUser, timerVars>>

NextSessionInit ==
  \/ SessionInitialize
  \/ EndSession
  \/ EndSessionResume
  \/ \E properties \in SessionPropertyMaps : UpdateSessionProperties(properties)
  \/ UpdateSessionPropertiesResume
  \/ SessionTick

SpecSessionInit == Init /\ [][NextSessionInit]_vars

\* ------------------------------------------------ property maps at the limit
\* fifty valid keys, and a property map that holds MAX_USER_PROPERTIES entries
FiftyKeys ==
  { <<x, y>> : x \in {"a", "c", "e", "g", "i"},
               y \in {"a", "c", "e", "g", "i", "k", "l", "p", "v", "w"} }
FiftyProperties == [k \in FiftyKeys |-> "string"]
UserPropertyLoads ==
  { <<>>,
    FiftyProperties,
    [k \in {<<"a", "_">>} |-> "string"],
    [k \in {<<"Z">>} |-> "number"],
    [k \in {<<"a", " ">>} |-> "string"] }

NextProperties ==
  \/ \E userId \in {<<"u", "1">>, <<"u", "2">>}, properties \in UserPropertyLoads :
       Identify(userId, properties)
  \/ IdentifyResume
  \/ \E properties \in UserPropertyLoads : UpdateProperties(properties)
  \/ UpdatePropertiesResume

SpecProperties == InitPipeline /\ [][NextProperties]_vars

\* ------------------------------------- alias of the SDK's own anonymous user
\* alias(A, U) with A the id of the current user, when createAnonymousUser
\* made that user
AliasCurrent(userId) ==
  /\ currentUser # Null
  /\ currentUser.id \in SynthesizedIds
  /\ Alias(currentUser.id, userId)

\* No alias call made here gets past its lookup of the anonymous record, so
\* the continuation AliasResume has no step in this specification.
NextAlias ==
  \/ Initialize
  \/ InitializeUser
  \/ InitializeSession
  \/ InitializeFinish
  \/ \E userId \in {<<"u", "1">>, <<"u", "2">>} : AliasCurrent(userId)
  \/ Reset
  \/ ResetUser
  \/ ResetSession
  \/ ResetFinish

SpecAlias == Init /\ [][NextAlias]_vars

\* --------------------------------------- answers that report failed events
NextPartial ==
  \/ (nextEventId <= MaxLifecycleEvents /\ Track("track"))
  \/ QueueEvent
  \/ Flush
  \/ SetCallbacks
  \/ \E f \in flights, response \in {"okJson", "okPartial", "okFailed", "notOk"} :
       NetRespond(f, response)
  \/ \E f \in flights : FlushResume(f)

SpecPartial == InitPipeline /\ [][NextPartial]_vars

\* ------------------------------------------- retry policies that are supplied
\* retryConfig objects passed to the constructor, every field given
RetryPolicies ==
  { [maxRetries |-> 0, initialDelay |-> 100, maxDelay |-> 1000, backoffMultiplier |-> 2],
    [maxRetries |-> 1, initialDelay |-> 600, maxDelay |-> 1000, backoffMultiplier |-> 2],
    [maxRetries |-> 2, initialDelay |-> 100, maxDelay |-> 250, backoffMultiplier |-> 3],
    [maxRetries |-> 4, initialDelay |-> 1, maxDelay |-> 5, backoffMultiplier |-> 1] }

InitRetryPolicy ==
  /\ RequestInFlight
  /\ retryConfig \in {MergeWithDefaults(c) : c \in RetryPolicies}

SpecRetryPolicy == InitRetryPolicy /\ [][NextRequest]_vars

\* ------------------------------------ events against later identity changes
\* a Ready coordinator whose store also holds an anonymous record for alias
InitSnapshot ==
  /\ isInitialized = TRUE
  /\ flushTimer = 1
  /\ timers = {1}
  /\ nextTimer = 2
  /\ eventQueue = <<>>
  /\ callbacks = {}
  /\ retryConfig \in {MergeWithDefaults(c) : c \in SuppliedRetryConfigs}
  /\ currentUser = AnonymousUser(1)
  /\ currentSession = NewSession(2)
  /\ storage = StSet(StSet([EmptyStorage EXCEPT
                               ![AnonymousKey(<<"a", "1">>)] = AnonymousRecord],
                           USER_ID, AnonymousUser(1)),
                     SESSION_ID, NewSession(2))
  /\ nextUuid = 3
  /\ pendingTracks = <<>>
  /\ call = Idle
  /\ flights = {}
  /\ delivered = EmptyBag
  /\ ret = [op |-> "initialize", code |-> "OK"]
  /\ notified = <<>>
  /\ nextEventId = 1

NextSnapshot ==
  \/ (nextEventId <= MaxLifecycleEvents /\ Track("track"))
  \/ QueueEvent
  \/ TimerFire
  \/ \E f \in flights, response \in {"okJson", "notOk"} : NetRespond(f, response)
  \/ \E f \in flights : FlushResume(f)
  \/ Identify(<<"u", "1">>, <<>>)
  \/ IdentifyResume
  \/ Alias(<<"a", "1">>, <<"u", "2">>)
  \/ AliasResume
  \/ Reset
  \/ ResetUser
  \/ ResetSession
  \/ ResetFinish
  \/ StartSession(<<>>)
  \/ StartSessionCreate
  \/ StartSessionAssign
  \/ EndSession
  \/ EndSessionResume

SpecSnapshot == InitSnapshot /\ [][NextSnapshot]_vars

\* ----------------------------------------------------------------- claims
Range(s) == {s[i] : i \in DOMAIN s}
NoDuplicates(s) == \A i, j \in DOMAIN s : i # j => s[i] # s[j]
CountIn(s, id) == Cardinality({i \in DOMAIN s : s[i].id = id})
RECURSIVE SumOver(_, _, _)
SumOver(S, F(_), acc) ==
  IF S = {} THEN acc
  ELSE LET x == CHOOSE y \in S : TRUE IN SumOver(S \ {x}, F, acc + F(x))

\* a batch the collector has not answered with a 2xx status
Unanswered(f) == f.resp \notin {"OK", "REJECTED"}
Failed(f) == f.pc = "resp" /\ f.resp \in {"HTTP_ERROR", "NETWORK_ERROR"}
InBatches(id) ==
  LET n(f) == CountIn(f.events, id) IN SumOver({f \in flights : Unanswered(f)}, n, 0)
Delivered(id) ==
  LET n(e) == CopiesIn(e, delivered)
  IN SumOver({e \in BagToSet(delivered) : e.id = id}, n, 0)
Places(id) == CountIn(eventQueue, id) + InBatches(id) + Delivered(id)
Enqueued == (1..(nextEventId - 1)) \ {t.event.id : t \in Range(pendingTracks)}

C4_RetrySchedule ==
  \A f \in flights :
    f.resp = "NETWORK_ERROR" =>
      /\ Len(f.outcomes) = retryConfig.maxRetries + 1
      /\ \A i \in DOMAIN f.outcomes : f.outcomes[i] = "threw"
      /\ Len(f.delays) = retryConfig.maxRetries
      /\ \A k \in 0..(retryConfig.maxRetries - 1) :
           f.delays[k + 1] =
             Min(retryConfig.initialDelay * Pow(retryConfig.backoffMultiplier, k),
                 retryConfig.maxDelay)
      /\ (retryConfig = [maxRetries |-> 3, initialDelay |-> 100, maxDelay |-> 1000,
                         backoffMultiplier |-> 2]
            => f.delays = <<100, 200, 400>>)

C4_Witness ==
  /\ retryConfig.initialDelay = 400
  /\ \E f \in flights : f.resp = "NETWORK_ERROR" /\ f.delays = <<400, 800, 1000>>

C6_SizeTriggeredFlush ==
  [][/\ (pendingTracks # <<>> /\ pendingTracks' = Tail(pendingTracks)) =>
          LET t == Head(pendingTracks)
              q == Append(eventQueue, t.event)
          IN IF Len(q) >= BatchSize
             THEN /\ eventQueue' = <<>>
                  /\ \E f \in flights' :
                       /\ flights' \ flights = {f}
                       /\ f.events = q /\ f.origin = t.kind /\ f.pc = "fetch"
                  /\ ret' = NoRet
             ELSE /\ eventQueue' = q
                  /\ flights' = flights
                  /\ ret' = [op |-> t.kind, code |-> "OK"]
     /\ (ret'.op \in TrackKinds /\ ret'.code = "OK") =>
          \/ /\ pendingTracks # <<>> /\ pendingTracks' = Tail(pendingTracks)
             /\ Len(eventQueue') < BatchSize
          \/ \E f \in flights :
               /\ f.origin = ret'.op /\ f.resp = "OK" /\ f \notin flights'
               /\ eventQueue' = eventQueue
               /\ \A i \in DOMAIN f.events : Delivered(f.events[i].id)' = 1
    ]_vars

C6_Witness ==
  /\ ret.op \in TrackKinds /\ ret.code = "OK"
  /\ eventQueue = <<>>
  /\ \A id \in 1..BatchSize : Delivered(id) = 1
  /\ nextEventId = BatchSize + 1

\* an operation other than initialize and destroy is invoked
Invocation ==
  \/ Flush
  \/ \E kind \in TrackKinds : Track(kind)
  \/ \E userId \in UserIds, properties \in PropertyMaps : Identify(userId, properties)
  \/ \E anonymousId \in AnonymousIds, userId \in UserIds : Alias(anonymousId, userId)
  \/ Reset

\* C3 as claimed: while the coordinator is not Ready, the invocation of
\* track, trackPageView, trackClick, identify, alias, reset or flush fails
\* with SDK_NOT_INITIALIZED and changes neither the queue nor the user, the
\* session or the store.
C3_NotReadyRejects ==
  [][(~isInitialized /\ Invocation) =>
       /\ ret'.code = "SDK_NOT_INITIALIZED"
       /\ UNCHANGED <<eventQueue, currentUser, currentSession, storage>>]_vars

\* C7: the step in which reset() returns leaves the queue empty whatever it
\* held, a fresh anonymous user in memory and (as its JSON image) in the
\* store, whose id differs
\* from the id of the user reset() was called on and who has no properties,
\* and no session in memory or in the store.
C7_ResetClears ==
  [][(call.op = "reset" /\ ret'.op = "reset" /\ ret'.code = "OK") =>
       /\ eventQueue' = <<>>
       /\ currentUser' = AnonymousUser(nextUuid' - 1)
       /\ currentUser'.id # call.previous
       /\ currentUser'.properties = <<>>
       /\ storage'[USER_ID] = JsonRoundTrip(currentUser')
       /\ storage'[USER_PROPERTIES] = Null
       /\ currentSession' = Null
       /\ storage'[SESSION_ID] = Null
       /\ storage'[SESSION_PROPERTIES] = Null]_vars

\* reset() has just returned and discarded two events that were tracked, sent
\* once without success and re-queued
C7_Witness ==
  /\ ret = [op |-> "reset", code |-> "OK"]
  /\ nextEventId = 3
  /\ pendingTracks = <<>> /\ flights = {} /\ delivered = EmptyBag
  /\ eventQueue = <<>>
  /\ currentUser = AnonymousUser(3)
  /\ currentSession = Null

\* C8 as claimed: in the state destroy() returns in, with or without an
\* error, the timer it holds is not armed, the queue and the callbacks are
\* empty and the coordinator is not Ready.
C8_DestroyTearsDown ==
  ret.op = "destroy" =>
    /\ flushTimer \notin timers
    /\ eventQueue = <<>>
    /\ callbacks = {}
    /\ ~isInitialized

\* an instance that was Ready and has been destroyed: flushTimer keeps the
\* handle initialize() stored, isInitialized is false again
Destroyed == ~isInitialized /\ flushTimer # 0

\* C9 as claimed: a destroyed coordinator stays destroyed: no step makes it
\* Ready again.
C9_DestroyedIsTerminal == [][Destroyed => ~isInitialized']_vars

\* C10 as claimed: while destroy() is in progress and after it has destroyed
\* the instance no flush is started by the timer, and the teardown does not
\* happen while the flush destroy() started is still pending.
C10_NoTimerFlushAfterDestroy ==
  [][/\ (call.op = "destroy" \/ Destroyed) =>
          ~\E f \in flights' \ flights : f.origin = "timer"
     /\ (isInitialized /\ ~isInitialized') =>
          ~\E f \in flights : f.origin = "destroy"]_vars

\* C11 as claimed: the step that finishes a failed timer-driven flush
\* returns an error to no caller, invokes the registered error callback with
\* FLUSH_ERROR, leaves the drained events at the front of the queue and
\* leaves the timer armed.
C11_TimerFlushFailure ==
  [][\A f \in flights :
       (f.origin = "timer" /\ f.pc = "resp" /\ f.resp # "OK" /\ f \notin flights') =>
         /\ ret' = NoRet
         /\ ("onError" \in callbacks =>
               \E i \in DOMAIN notified' :
                 notified'[i].cb = "onError" /\ notified'[i].code = "FLUSH_ERROR")
         /\ eventQueue' = f.events \o eventQueue
         /\ flushTimer' \in timers']_vars

\* the operations of the coordinator the error policy is claimed for
PolicyOps ==
  {"initialize", "track", "trackPageView", "trackClick", "identify", "alias",
   "reset", "flush"}

\* C12 as claimed: whenever initialize, track, trackPageView, trackClick,
\* identify, alias, reset or a direct flush fails internally (with a code
\* other than SDK_NOT_INITIALIZED) and an error callback is registered, that
\* step invokes the callback with an error that carries the code thrown to
\* the caller and the ids of the current user and session.
C12_ErrorCallbackAndThrow ==
  [][(/\ ret'.op \in PolicyOps
      /\ ret'.code \notin {"OK", "SDK_NOT_INITIALIZED"}
      /\ "onError" \in callbacks) =>
       \E i \in DOMAIN notified' :
         notified'[i] = [cb |-> "onError", code |-> ret'.code,
                         userId |-> GetUserId', sessionId |-> GetSessionId']]_vars

\* C13: initialize() passes the Persistent Store, the Identity Store and the
\* Session Store in this order and nothing else, and the step in which it
\* returns without error comes after the Session Store, arms a new flush
\* timer, makes the coordinator Ready, invokes the registered success
\* callback exactly once and no other callback, and leaves a current user
\* and a current session without end.
C13_InitializeOrder ==
  [][/\ (call'.op = "initialize" /\ call' # call) =>
          \/ call = Idle /\ call'.pc = "user"
          \/ call.op = "initialize" /\ call.pc = "user" /\ call'.pc = "session"
                /\ currentUser' # Null
          \/ call.op = "initialize" /\ call.pc = "session" /\ call'.pc = "finish"
                /\ currentSession' # Null
     /\ (ret'.op = "initialize" /\ ret'.code = "OK") =>
          /\ call.op = "initialize" /\ call.pc = "finish" /\ call' = Idle
          /\ flushTimer' \in timers' \ timers
          /\ isInitialized'
          /\ notified' = (IF "onSuccess" \in callbacks THEN <<[cb |-> "onSuccess"]>> ELSE <<>>)
          /\ currentUser' # Null
          /\ currentSession' # Null /\ currentSession'.endTime = "none"]_vars

\* initialize() has just returned on an instance with callbacks registered:
\* Ready, timer armed, the success callback invoked once
C13_Witness ==
  /\ ret = [op |-> "initialize", code |-> "OK"]
  /\ notified = <<[cb |-> "onSuccess"]>>
  /\ isInitialized /\ flushTimer \in timers
  /\ currentUser # Null /\ currentSession # Null

\* C15: when initialize() reaches the Session Store, the step can complete
\* as the age of the persisted session requires: a session started 30
\* minutes ago or more is replaced by a new session with a different id, a
\* younger one is resumed with its id and start time, and with no
\* persisted session a new one is created.
C15_SessionResumeOrReplace ==
  (call.op = "initialize" /\ call.pc = "session") =>
    LET stored == StGet(storage, SESSION_ID)
    IN ENABLED (/\ InitializeSession
                /\ call'.pc = "finish"
                /\ currentSession' # Null
                /\ IF stored = Null THEN currentSession' = NewSession(nextUuid)
                   ELSE IF stored.startedAgo >= MaxInactivity
                   THEN currentSession' = NewSession(nextUuid)
                          /\ currentSession'.id # stored.id
                   ELSE currentSession'.id = stored.id
                          /\ currentSession'.startTime = stored.startTime)

\* C16: whenever the coordinator is Ready and no identity or lifecycle call
\* is under way, there is exactly one active session: a current session
\* that has no end time.
C16_OneActiveSession ==
  (isInitialized /\ call = Idle) =>
    (currentSession # Null /\ currentSession.endTime = "none")

\* C17: the step in which identify(userId, props) returns without error was
\* called with a userId that is not empty and not only whitespace, and
\* leaves a current user whose id is userId, whose properties are the
\* previous user's overridden key by key by props, whose createdAt is the
\* previous user's and whose lastSeenAt is the time of this call; the record
\* stored under USER_ID is the stored image of that user. A step in which
\* identify fails changes neither the current user nor the store.
C17_Identify ==
  [][/\ (ret'.op = "identify" /\ ret'.code = "OK") =>
          /\ call.op = "identify"
          /\ call.userId # <<>>
          /\ \E i \in 1..Len(call.userId) : call.userId[i] \notin Whitespace
          /\ currentUser'.id = call.userId
          /\ DOMAIN currentUser'.properties =
               (IF currentUser = Null THEN {} ELSE DOMAIN currentUser.properties)
                 \cup DOMAIN call.properties
          /\ \A k \in DOMAIN currentUser'.properties :
               currentUser'.properties[k] =
                 IF k \in DOMAIN call.properties THEN call.properties[k]
                 ELSE currentUser.properties[k]
          /\ currentUser # Null => currentUser'.createdAt = currentUser.createdAt
          /\ currentUser'.lastSeenAt = [type |-> "Date", by |-> "identify"]
          /\ storage'[USER_ID] = JsonRoundTrip(currentUser')
     /\ (ret'.op = "identify" /\ ret'.code \notin {"OK", "SDK_NOT_INITIALIZED"}) =>
          /\ currentUser' = currentUser
          /\ storage' = storage]_vars

\* identify has just returned for a user that already had a property under
\* another key and was created earlier; the store holds its stored image
C17_Witness ==
  /\ ret = [op |-> "identify", code |-> "OK"]
  /\ currentUser.id = <<"u", "1">>
  /\ currentUser.properties = (<<"Z">> :> "number" @@ <<"a", "_">> :> "string")
  /\ currentUser.createdAt # currentUser.lastSeenAt
  /\ storage[USER_ID] # currentUser

\* C18: identify and updateProperties never return without error when the
\* properties they were given hold a key that does not match
\* [A-Za-z0-9_-]+ or a value that is no string, number, boolean or null;
\* the step in which either of them fails changes neither the current user
\* nor the store.
C18_InvalidPropertiesRejected ==
  [][/\ (ret'.op \in {"identify", "updateProperties"} /\ ret'.code = "OK") =>
          /\ call.op = ret'.op
          /\ \A k \in DOMAIN call.properties :
               /\ k # <<>>
               /\ \A i \in 1..Len(k) : k[i] \in {"a", "Z", "7", "_", "-"}
               /\ call.properties[k] \in {"string", "number", "boolean", "null"}
     /\ (/\ ret'.op \in {"identify", "updateProperties"}
         /\ ret'.code \notin {"OK", "SDK_NOT_INITIALIZED"}) =>
          /\ currentUser' = currentUser
          /\ storage' = storage]_vars

\* updateProperties has just been refused for an invalid property while a
\* user with properties is current; the store still holds that user
C18_Witness ==
  /\ ret = [op |-> "updateProperties", code |-> "USER_UPDATE_ERROR",
            cause |-> "Invalid property"]
  /\ currentUser # Null
  /\ currentUser.properties # <<>>
  /\ storage[USER_ID] = JsonRoundTrip(currentUser)

\* C19: the step in which alias(anonymousId, userId) fails because nothing
\* is stored under anonymous_<anonymousId> changes neither the current user
\* nor the store; the step in which alias returns without error found a
\* record under that key, and leaves a current user that is this record
\* with id = userId and lastSeenAt the time of the call, the store holding
\* its stored image under USER_ID and nothing under anonymous_<anonymousId>.
C19_Alias ==
  [][/\ (ret'.op = "alias" /\ ret'.code = "OK") =>
          /\ call.op = "alias"
          /\ LET key == <<"anonymous_">> \o call.anonymousId
                 record == storage[key]
             IN /\ record # Null
                /\ currentUser'.id = call.userId
                /\ currentUser'.properties = record.properties
                /\ currentUser'.createdAt = record.createdAt
                /\ currentUser'.lastSeenAt = [type |-> "Date", by |-> "alias"]
                /\ storage'[USER_ID] = JsonRoundTrip(currentUser')
                /\ storage'[key] = Null
     /\ (ret'.op = "alias" /\ ret'.code = "USER_ALIAS_ERROR"
           /\ ret'.cause = "Anonymous user not found") =>
          /\ currentUser' = currentUser
          /\ storage' = storage]_vars

\* alias has just re-keyed the record stored under anonymous_a1 to u1
C19_Witness ==
  /\ ret = [op |-> "alias", code |-> "OK"]
  /\ currentUser.id = <<"u", "1">>
  /\ currentUser.properties = AnonymousRecord.properties
  /\ storage[USER_ID].id = <<"u", "1">>
  /\ storage[AnonymousKey(<<"a", "1">>)] = Null

\* C20: track enqueues nothing that fails validation: every event in the
\* queue has a name matching [A-Za-z0-9_-]+, at most 100 properties, and
\* only properties with a valid key and a valid value.
C20_OnlyValidEventsQueued ==
  \A i \in DOMAIN eventQueue : ValidateEvent(eventQueue[i])

C21_RequestNeverThrows ==
  \A f \in flights :
    f.pc = "resp" =>
      LET last == f.outcomes[Len(f.outcomes)]
      IN /\ f.resp \in {"OK", "HTTP_ERROR", "NETWORK_ERROR"}
         /\ last = "threw" => f.resp = "NETWORK_ERROR"
         /\ last = "notOk" => f.resp = "HTTP_ERROR"

\* C22: get(key) on an item that was set with a ttl returns the value that
\* was set while no more than ttl has elapsed since the set; once more than
\* ttl has elapsed it returns absent and removes the item, so that keys()
\* no longer lists the key.
C22_TtlRoundTrip ==
  [][\A key \in ItemKeys :
       (ret'.op = "get" /\ ret'.key = key /\ storage[key] # Null /\ storage[key].ttl # 0) =>
          IF storage[key].age <= storage[key].ttl
          THEN /\ ret'.code = "OK"
               /\ ret'.value = storage[key].value
               /\ storage' = storage
          ELSE /\ ret'.code = "OK"
               /\ ret'.value = Null
               /\ storage'[key] = Null]_vars

\* C23: the queue always lists its events in the order in which they were
\* tracked, whatever flushes overlapped and failed.
C23_QueueInTrackingOrder ==
  \A i, j \in DOMAIN eventQueue : i < j => eventQueue[i].id < eventQueue[j].id

\* C24: once reset() has returned, the queue holds no event that was
\* tracked for the user reset() replaced: every queued event carries the id
\* of the current user, or none if it was tracked while reset() was
\* replacing the user.
C24_NoEventSurvivesReset ==
  (call = Idle /\ currentUser # Null) =>
    \A i \in DOMAIN eventQueue : eventQueue[i].userId \in {currentUser.id, NoId}

\* C25: once destroy() has completed, the queue of the destroyed
\* coordinator is empty in every later state and no flush sends a new
\* batch.
C25_DestroyedQueueStaysEmpty ==
  [][(Destroyed /\ call = Idle) =>
       /\ eventQueue' = <<>>
       /\ \A f \in flights' \ flights : f.outcomes # <<>>]_vars

\* C26: when track, trackPageView or trackClick fails with an error, the
\* event of that call is not in the queue.
C26_FailedTrackEnqueuesNothing ==
  [][\A f \in flights :
       (/\ f.origin \in TrackKinds /\ f.pc = "resp" /\ f \notin flights'
        /\ ret'.op = f.origin /\ ret'.code # "OK") =>
          \A i \in DOMAIN eventQueue' : eventQueue'[i].id # f.events[Len(f.events)].id]_vars

\* C27: in every state at most one periodic flush timer is running, and
\* none is running on a coordinator that has been destroyed.
C27_AtMostOneTimer ==
  /\ Cardinality(timers) <= 1
  /\ (Destroyed /\ call = Idle) => timers = {}

C29_FailedWriteKeepsSession ==
  [][(/\ ret'.op \in {"startSession", "endSession", "updateSessionProperties"}
      /\ ret'.code # "OK"
      /\ ret'.cause = "STORAGE_SET_ERROR")
     => currentSession' = (IF call = Idle THEN currentSession ELSE call.before)]_vars

\* C30: startSession with a session active first stores the old session with
\* endTime set and duration = endTime - startTime (not negative), and only then
\* stores a new session with a different id, which becomes the current session;
\* with no session active it only creates the new one; endSession with no
\* session active changes nothing.
C30_StartSessionEndsThenCreates ==
  [][/\ (call = Idle /\ call'.op = "startSession" /\ currentSession # Null)
          => /\ storage'[SESSION_ID].id = currentSession.id
             /\ storage'[SESSION_ID].endTime # "none"
             /\ storage'[SESSION_ID].duration = currentSession.startedAgo
             /\ storage'[SESSION_ID].duration >= 0
             /\ call'.pc = "ended"
     /\ (call.op = "startSession" /\ call.pc = "ended" /\ call'.pc = "assign")
          => /\ storage[SESSION_ID].id = call.before.id
             /\ storage[SESSION_ID].endTime # "none"
             /\ storage'[SESSION_ID].id # call.before.id
             /\ storage'[SESSION_ID].endTime = "none"
     /\ (call = Idle /\ call'.op = "startSession" /\ currentSession = Null)
          => /\ call'.pc = "assign"
             /\ storage'[SESSION_ID].id = nextUuid
             /\ storage'[SESSION_ID].endTime = "none"
     /\ ret' = [op |-> "startSession", code |-> "OK"]
          => /\ currentSession' # Null
             /\ currentSession'.endTime = "none"
             /\ storage'[SESSION_ID] = JsonRoundTrip(currentSession')
             /\ currentSession = Null
             /\ call.before # Null => currentSession'.id # call.before.id
     /\ (call = Idle /\ ret'.op = "endSession" /\ currentSession = Null)
          => /\ ret'.code = "OK"
             /\ UNCHANGED <<currentSession, storage>>]_vars

\* startSession found a session that had run for 2 time units, stored it as
\* ended and stored the new session, which is about to become current
C30_Witness ==
  /\ call.op = "startSession" /\ call.pc = "assign"
  /\ call.before # Null /\ call.before.startedAgo = 2
  /\ currentSession = Null
  /\ storage[SESSION_ID] = JsonRoundTrip(call.session)
  /\ call.session.id # call.before.id

\* C31: after SessionManager.initialize() completes with no storage operation
\* failing, isSessionActive() is true, also when the stored record is a session
\* that was ended less than 30 minutes after it started.
C31_InitializedSessionIsActive ==
  [][(/\ ret'.op = "SessionManager.initialize"
      /\ ret'.code # "OK" => ret'.cause \notin {"STORAGE_GET_ERROR", "SESSION_CREATE_ERROR"})
     => IsSessionActive(currentSession')]_vars

\* C32: once initialized, there is a current user after every identify, alias,
\* updateProperties or reset, whether the operation succeeded or failed.
C32_AlwaysOneCurrentUser ==
  [][(/\ isInitialized
      /\ ret'.op \in {"identify", "alias", "updateProperties", "reset"})
     => currentUser' # Null]_vars

\* C33: after any sequence of identify and updateProperties calls the current
\* user's property map holds at most 50 entries, each with a key matching
\* [A-Za-z0-9_-]+ and a string, number, boolean or null value.
C33_UserPropertiesWithinLimit ==
  currentUser # Null =>
    /\ Cardinality(DOMAIN currentUser.properties) <= 50
    /\ \A k \in DOMAIN currentUser.properties :
         /\ IsValidPropertyKey(k)
         /\ currentUser.properties[k] \in {"string", "number", "boolean", "null"}

\* C34: after any sequence of startSession and updateSessionProperties calls
\* the current session's property map holds at most 25 entries, each with a
\* key matching [A-Za-z0-9_-]+ and a string, number, boolean or null value.
C34_SessionPropertiesWithinLimit ==
  currentSession # Null =>
    /\ Cardinality(DOMAIN currentSession.properties) <= 25
    /\ \A k \in DOMAIN currentSession.properties :
         /\ IsValidPropertyKey(k)
         /\ currentSession.properties[k] \in {"string", "number", "boolean", "null"}

\* C35: alias(A, U) succeeds when A is the id of the anonymous user that
\* initialize() or reset() created, U is a user id and no storage operation
\* fails.  (Every alias call of SpecAlias has such an A and U.)
C35_AliasOfSynthesizedUser ==
  [][(/\ ret'.op = "alias"
      /\ isInitialized
      /\ ret'.code # "OK" =>
           ret'.cause \notin {"STORAGE_GET_ERROR", "STORAGE_SET_ERROR",
                              "STORAGE_REMOVE_ERROR"})
     => ret'.code = "OK"]_vars

\* C36: when the collector answers a batch with a success status and a body
\* reporting status "partial" or "failed", the events it did not process are
\* back on the queue once flush() has handled the answer.
C36_UnprocessedEventsRequeued ==
  [][\A f \in flights \ flights' :
       (f.pc = "resp" /\ f.outcomes[Len(f.outcomes)] \in {"okPartial", "okFailed"})
         => \A i \in DOMAIN f.events :
              f.events[i] \notin Processed(f.events, f.outcomes[Len(f.outcomes)])
                => \E j \in DOMAIN eventQueue' : eventQueue'[j] = f.events[i]]_vars

\* C37: for every supplied retryConfig, a transport that throws on every
\* attempt is attempted exactly maxRetries + 1 times before the request ends
\* in NETWORK_ERROR; maxRetries = 0 means one attempt.
C37_ConfiguredRetriesInForce ==
  \A f \in flights :
    (f.resp = "NETWORK_ERROR" /\ \A i \in DOMAIN f.outcomes : f.outcomes[i] = "threw")
      => \A c \in RetryPolicies :
           retryConfig = MergeWithDefaults(c) => Len(f.outcomes) = c.maxRetries + 1

\* the events held by the coordinator: suspended in track, queued, or in a
\* batch in flight
HeldEvents(pending, queue, inFlight) ==
  {pending[i].event : i \in DOMAIN pending}
    \cup {queue[i] : i \in DOMAIN queue}
    \cup UNION {{f.events[i] : i \in DOMAIN f.events} : f \in inFlight}

\* C38: an event carries the user id and session id current when it was
\* created; no later step (identify, alias, reset, startSession, endSession or
\* any other) changes a field of an event that is queued or in a batch in
\* flight, and the steps of identify and alias enqueue no event.
C38_EventsAreSnapshots ==
  [][LET before == HeldEvents(pendingTracks, eventQueue, flights)
         after == HeldEvents(pendingTracks', eventQueue', flights')
     IN /\ \A e \in before, e2 \in after : e.id = e2.id => e = e2
        /\ \A e2 \in after :
             (\A e \in before : e.id # e2.id)
               => e2.userId = GetUserId /\ e2.sessionId = GetSessionId
        /\ (\/ call' # call /\ call.op \in {"identify", "alias"}
            \/ call' # call /\ call'.op \in {"identify", "alias"}
            \/ ret'.op \in {"identify", "alias"})
             => /\ eventQueue' = eventQueue
                /\ pendingTracks' = pendingTracks
                /\ after = before]_vars

\* identify has returned while one event of the earlier anonymous user is in
\* the queue and another is in a batch in flight
C38_Witness ==
  /\ ret = [op |-> "identify", code |-> "OK"]
  /\ currentUser.id = <<"u", "1">>
  /\ \E i \in DOMAIN eventQueue : eventQueue[i].userId = Uuid(1)
  /\ \E f \in flights : \E i \in DOMAIN f.events : f.events[i].userId = Uuid(1)

\* C39: set(key, value) whose serialised item is larger than maxSize fails
\* with a storage error and leaves what was stored under key unchanged; a
\* value within the limit is stored in place of the previous one, and get(key)
\* returns it.
C39_SetWithinMaxSize ==
  [][/\ ret'.op = "set" =>
          IF ret'.value.length > StorageMaxSize
          THEN ret'.code = "STORAGE_SET_ERROR" /\ storage' = storage
          ELSE IF ret'.code = "OK"
          THEN /\ storage'[ret'.key] # Null
               /\ storage'[ret'.key].value = ret'.value
               /\ \A k \in DOMAIN storage \ {ret'.key} : storage'[k] = storage[k]
          ELSE storage' = storage
     /\ (ret'.op = "get" /\ storage[ret'.key] # Null /\ storage[ret'.key].ttl = 0)
          => /\ ret'.code = "OK"
             /\ ret'.value = storage[ret'.key].value
             /\ storage' = storage]_vars

\* C40: flush() called in the Ready state with an empty queue does nothing: it
\* returns without error in the same step, starts no batch, invokes no
\* callback and leaves the queue empty; no batch without events is ever
\* started.  (A step that returns from flush and finishes no flight is the
\* call itself.)
C40_FlushOfEmptyQueue ==
  [][/\ (/\ isInitialized
         /\ eventQueue = <<>>
         /\ ret'.op = "flush"
         /\ flights \subseteq flights')
        => /\ ret'.code = "OK"
           /\ flights' = flights
           /\ notified' = <<>>
           /\ eventQueue' = <<>>
           /\ delivered' = delivered
     /\ \A f \in flights' \ flights : f.pc = "fetch" => f.events # <<>>]_vars

\* the empty-queue flush must have a state in which a flush() call starts
\* no flight: with the callbacks registered, flush returned, nothing is in
\* flight and no callback was invoked
C40_Witness ==
  /\ isInitialized
  /\ ret = [op |-> "flush", code |-> "OK"]
  /\ eventQueue = <<>>
  /\ flights = {}
  /\ "onSuccess" \in callbacks /\ "onError" \in callbacks
  /\ notified = <<>>

====
